---------------------------- MODULE Spec2Model ----------------------------
(***************************************************************************)
(* SharePoint -> Blob Storage synchronisation job (src/sync).              *)
(*                                                                         *)
(* Strings the code inspects character by character (paths, blob names,    *)
(* prefixes) are sequences of one-character strings; strings the code only *)
(* compares (hashes, ids, metadata keys) are TLA+ strings.                 *)
(***************************************************************************)
EXTENDS Integers, Sequences, FiniteSets, TLC

VARIABLES
    remote,      \* the drive: item id -> file record, for the items that exist
    blobs,       \* the container: blob name -> [size, metadata]
    tokenStore,  \* the persisted delta token
    environ,     \* os.environ: the variables the job reads
    lock,        \* _sync_lock: the request holding it, or NoRequest
    req,         \* per trigger request: pc, overrides, previous_values, exit_code
    run,         \* the state of the run in progress (main / sync_sharepoint_to_blob)
    hist,        \* what earlier steps and runs did (history, read by the properties only)
    fn           \* inputs and result of a function applied on its own

vars == <<remote, blobs, tokenStore, environ, lock, req, run, hist, fn>>

-----------------------------------------------------------------------------
(* Bounds of the model *)

MaxTime == 2          \* wall-clock values of timestamps are 1..MaxTime

-----------------------------------------------------------------------------
(* Values *)

NoneStr == "None"                       \* Python's None where a str is expected
NoneDt == [kind |-> "none"]             \* Python's None where a datetime is expected
Truthy(s) == s # NoneStr /\ s # ""      \* truth value of a str | None

EmptyMd == [k \in {} |-> ""]            \* an empty (or absent) metadata mapping
MdGet(md, k) == IF k \in DOMAIN md THEN md[k] ELSE NoneStr
MdHas(md, k) == k \in DOMAIN md

METADATA_SP_ITEM_ID == "sharepoint_item_id"
METADATA_SP_LAST_MODIFIED == "sharepoint_last_modified"
METADATA_SP_CONTENT_HASH == "sharepoint_content_hash"

-----------------------------------------------------------------------------
(* datetime: a wall-clock value and a zone (none, UTC, or UTC+1) *)

Zones == {"naive", "utc", "p1"}
DateTimes == [kind : {"dt"}, wall : 1..MaxTime, tz : Zones]

\* datetime.isoformat(): the wall clock followed by the offset, if any
IsoFormat(dt) ==
    [kind |-> "iso", wall |-> dt.wall,
     sfx |-> CASE dt.tz = "naive" -> ""
               [] dt.tz = "utc" -> "+00:00"
               [] dt.tz = "p1" -> "+01:00"]

\* str.replace('Z', '+00:00') on a timestamp string
ReplaceZ(s) == IF s.kind = "iso" /\ s.sfx = "Z" THEN [s EXCEPT !.sfx = "+00:00"] ELSE s

\* datetime.fromisoformat(): a datetime, or ValueError for a string that is no
\* ISO-8601 timestamp (a trailing 'Z' is one of the strings it does not accept)
FromIsoFormat(s) ==
    IF s.kind = "iso" /\ s.sfx \in {"", "+00:00", "+01:00"}
    THEN [kind |-> "dt", wall |-> s.wall,
          tz |-> CASE s.sfx = "" -> "naive"
                   [] s.sfx = "+00:00" -> "utc"
                   [] s.sfx = "+01:00" -> "p1"]
    ELSE [kind |-> "ValueError"]

\* dt.replace(tzinfo=timezone.utc) when dt.tzinfo is None
AssumeUtc(dt) == IF dt.tz = "naive" THEN [dt EXCEPT !.tz = "utc"] ELSE dt

\* the instant an aware datetime denotes (comparison of aware datetimes)
Instant(dt) == dt.wall - (IF dt.tz = "p1" THEN 1 ELSE 0)

-----------------------------------------------------------------------------
(* BlobStorageClient.should_update: "true", "false", or "raise" when the    *)
(* call ends with an exception                                              *)

\* a should_update that takes a tie of the two dates for a change
ShouldUpdateOnTie(md, sp_last_modified, sp_content_hash) ==
    IF DOMAIN md = {} THEN "true"
    ELSE LET stored_hash == MdGet(md, METADATA_SP_CONTENT_HASH) IN
         IF Truthy(stored_hash) /\ Truthy(sp_content_hash) /\ stored_hash # sp_content_hash
         THEN "true"
         ELSE IF ~MdHas(md, METADATA_SP_LAST_MODIFIED) THEN "true"
         ELSE LET stored_date == FromIsoFormat(ReplaceZ(md[METADATA_SP_LAST_MODIFIED])) IN
              IF stored_date.kind = "ValueError" THEN "true"
              ELSE IF sp_last_modified.kind = "none" THEN "raise"
              ELSE IF Instant(AssumeUtc(sp_last_modified)) >= Instant(AssumeUtc(stored_date))
                   THEN "true" ELSE "false"

ShouldUpdate(md, sp_last_modified, sp_content_hash) ==
    IF DOMAIN md = {} THEN "true"
    ELSE LET stored_hash == MdGet(md, METADATA_SP_CONTENT_HASH) IN
         IF Truthy(stored_hash) /\ Truthy(sp_content_hash) /\ stored_hash # sp_content_hash
         THEN "true"
         ELSE IF ~MdHas(md, METADATA_SP_LAST_MODIFIED) THEN "true"
         ELSE LET stored_date == FromIsoFormat(ReplaceZ(md[METADATA_SP_LAST_MODIFIED])) IN
              IF stored_date.kind = "ValueError" THEN "true"
              ELSE IF sp_last_modified.kind = "none" THEN "raise"
              ELSE IF Instant(AssumeUtc(sp_last_modified)) > Instant(AssumeUtc(stored_date))
                   THEN "true" ELSE "false"

-----------------------------------------------------------------------------
(* Character strings *)

Slash == "/"
Dot == "."
Colon == ":"

RECURSIVE LStrip(_, _)
\* s.lstrip(c)
LStrip(s, c) == IF s # <<>> /\ Head(s) = c THEN LStrip(Tail(s), c) ELSE s

RECURSIVE RStrip(_, _)
\* s.rstrip(c)
RStrip(s, c) ==
    IF s # <<>> /\ s[Len(s)] = c THEN RStrip(SubSeq(s, 1, Len(s) - 1), c) ELSE s

\* s.strip(c)
Strip(s, c) == RStrip(LStrip(s, c), c)

\* s.startswith(p)
StartsWith(s, p) == Len(p) <= Len(s) /\ SubSeq(s, 1, Len(p)) = p

\* s.endswith(c), c one character
EndsWith(s, c) == s # <<>> /\ s[Len(s)] = c

\* c in s
Contains(s, c) == \E i \in 1..Len(s) : s[i] = c

RECURSIVE LastSegment(_)
\* s.split('/')[-1]
LastSegment(s) ==
    IF Contains(s, Slash) THEN LastSegment(Tail(s)) ELSE s

RECURSIVE AfterFirst(_, _)
\* s.split(c, 1)[1], for s that contains c
AfterFirst(s, c) == IF Head(s) = c THEN Tail(s) ELSE AfterFirst(Tail(s), c)

\* the set of the elements of a sequence
Range(s) == {s[i] : i \in 1..Len(s)}

\* the sequences that enumerate the finite set S without repetition
Orderings(S) ==
    {q \in [1..Cardinality(S) -> S] : \A i, j \in 1..Cardinality(S) : q[i] = q[j] => i = j}

-----------------------------------------------------------------------------
(* BlobStorageClient: names, listing, writes *)

\* BlobStorageClient.__init__: blob_prefix.strip("/")
BlobPrefix(blob_prefix) == Strip(blob_prefix, Slash)

\* BlobStorageClient._get_blob_name
GetBlobName(prefix, sharepoint_path) ==
    LET clean_path == LStrip(sharepoint_path, Slash) IN
    IF prefix # <<>> THEN prefix \o <<Slash>> \o clean_path ELSE clean_path

\* list_blobs: the directory filter on one listed blob
SkippedByListing(name, size) ==
    \/ EndsWith(name, Slash)
    \/ size = 0 /\ ~Contains(LastSegment(name), Dot)

\* list_blobs: the names it yields from container `store` for `prefix`
ListBlobs(store, prefix) ==
    {n \in DOMAIN store : StartsWith(n, prefix) /\ ~SkippedByListing(n, store[n].size)}

\* upload_blob: the metadata written with the content
UploadMetadata(f) ==
    LET base == (METADATA_SP_ITEM_ID :> f.id)
                @@ (METADATA_SP_LAST_MODIFIED :> IsoFormat(f.last_modified)) IN
    IF Truthy(f.content_hash) THEN base @@ (METADATA_SP_CONTENT_HASH :> f.content_hash)
    ELSE base

\* a write that never reaches the container
PutBlobNowhere(store, name, blob) == store

\* a container with blob `name` written / removed
PutBlob(store, name, blob) == [n \in DOMAIN store \cup {name} |-> IF n = name THEN blob ELSE store[n]]
RemoveBlob(store, name) == [n \in DOMAIN store \ {name} |-> store[n]]

\* an upload that does not look at dry_run
UploadBlobIgnoringDryRun(store, prefix, f, content_size, dry_run) ==
    PutBlob(store, GetBlobName(prefix, f.path),
            [size |-> content_size, metadata |-> UploadMetadata(f)])

\* upload_blob(..., dry_run): the container afterwards (overwrite=True replaces
\* content and metadata)
UploadBlob(store, prefix, f, content_size, dry_run) ==
    IF dry_run THEN store
    ELSE PutBlob(store, GetBlobName(prefix, f.path),
                 [size |-> content_size, metadata |-> UploadMetadata(f)])

\* delete_blob(blob_name, dry_run) when the service deletes the blob
DeleteBlob(store, blob_name, dry_run) ==
    IF dry_run THEN store ELSE RemoveBlob(store, blob_name)

\* the blobs a listing with name_starts_with = directory_path.rstrip("/") + "/"
\* yields
UnderDirectory(store, directory_path) ==
    {n \in DOMAIN store : StartsWith(n, RStrip(directory_path, Slash) \o <<Slash>>)}

\* _delete_directory_recursive: every blob under the directory is deleted, then
\* the directory itself
DeleteDirectoryRecursive(store, directory_path) ==
    [n \in DOMAIN store \ (UnderDirectory(store, directory_path) \cup {directory_path})
        |-> store[n]]

-----------------------------------------------------------------------------
(* The drive (Microsoft Graph side).  An item that exists is a file with a  *)
(* size and a version; the version fixes its cTag and its last-modified.    *)

Ids == {"i1", "i2", "i3"}

\* name and parent folder (drive-relative, "" for the root) of each item
ItemName(id) ==
    CASE id = "i1" -> <<"a", Dot, "t">>
      [] id = "i2" -> <<"L">>
      [] id = "i3" -> <<"b", Dot, "t">>
      [] id = "i4" -> <<"c", Dot, "t">>

ItemParent(id) ==
    CASE id = "i1" -> <<Slash, "d">>
      [] id = "i2" -> <<>>
      [] id = "i3" -> <<>>
      [] id = "i4" -> <<Slash, "v", Dot, "1">>

Sizes == {0, 1}
Versions == 1..MaxTime
RemoteFiles == [size : Sizes, v : Versions]

CTag(v) == ToString(v)
Modified(v) == [kind |-> "dt", wall |-> v, tz |-> "utc"]

\* SharePointFile
SharePointFile(id, path, size, last_modified, content_hash) ==
    [id |-> id, path |-> path, size |-> size,
     last_modified |-> last_modified, content_hash |-> content_hash]

\* is the item inside the folder list_files is asked for
InFolder(id, folder_path) ==
    \/ folder_path = <<Slash>> \/ folder_path = <<>>
    \/ ItemParent(id) = <<Slash>> \o Strip(folder_path, Slash)

\* _process_item: the path list_files gives the item.  At the root the parent
\* path is built up from "/", below it from the folder path as configured.
ListedPath(id, folder_path) ==
    IF folder_path = <<Slash>> \/ folder_path = <<>>
    THEN ItemParent(id) \o <<Slash>> \o ItemName(id)
    ELSE RStrip(folder_path, Slash) \o <<Slash>> \o ItemName(id)

\* list_files(folder_path): the files it yields for drive state `drive`
ListFiles(drive, folder_path) ==
    {SharePointFile(id, ListedPath(id, folder_path), drive[id].size,
                    Modified(drive[id].v), CTag(drive[id].v)) :
        id \in {x \in DOMAIN drive : InFolder(x, folder_path)}}

-----------------------------------------------------------------------------
(* The delta feed.  A raw item is the JSON object of one entry; what a      *)
(* deleted entry still carries is up to the service.                        *)

\* parentReference.path of an item: "/drives/{id}/root:" followed by the folder
ParentReference(id) == <<"r", Colon>> \o ItemParent(id)

RawFile(id, f) ==
    [id |-> id, name |-> ItemName(id), parent |-> ParentReference(id),
     facets |-> {"file"}, size |-> f.size,
     lastModified |-> [kind |-> "iso", wall |-> f.v, sfx |-> "Z"], cTag |-> CTag(f.v)]

\* detail: "full" (name and parent path), "name" (name only), "bare" (id only)
RawDeleted(id, detail) ==
    [id |-> id,
     name |-> IF detail = "bare" THEN <<>> ELSE ItemName(id),
     parent |-> IF detail = "full" THEN ParentReference(id) ELSE <<>>,
     facets |-> {"deleted", "file"}, size |-> 0,
     lastModified |-> [kind |-> "absent"], cTag |-> NoneStr]

RawFolder(name) ==
    [id |-> "folder", name |-> name, parent |-> <<"r", Colon>>,
     facets |-> {"folder"}, size |-> 0,
     lastModified |-> [kind |-> "absent"], cTag |-> NoneStr]

\* a folder that was deleted: the entry carries both facets
RawDeletedFolder(name) ==
    [id |-> "folder", name |-> name, parent |-> <<"r", Colon>>,
     facets |-> {"folder", "deleted"}, size |-> 0,
     lastModified |-> [kind |-> "absent"], cTag |-> NoneStr]

DeletedDetails == {"full", "name", "bare"}

NoChange == [kind |-> "skip"]

\* SharePointClient._parse_delta_item
ParseDeltaItem(item) ==
    LET parent_path == IF Contains(item.parent, Colon)
                       THEN AfterFirst(item.parent, Colon) ELSE <<>>
        item_path == IF parent_path # <<>>
                     THEN RStrip(parent_path, Slash) \o <<Slash>> \o item.name
                     ELSE IF item.name # <<>> THEN <<Slash>> \o item.name ELSE <<>>
        is_folder == "folder" \in item.facets
        last_modified ==
            IF item.lastModified.kind = "absent" THEN NoneDt
            ELSE LET d == FromIsoFormat(ReplaceZ(item.lastModified)) IN
                 IF d.kind = "ValueError" THEN NoneDt ELSE d
    IN  IF "deleted" \in item.facets
        THEN [kind |-> "change", change_type |-> "DELETED", has_file |-> FALSE,
              file |-> NoChange, item_id |-> item.id, item_path |-> item_path,
              is_folder |-> is_folder]
        ELSE IF is_folder
        THEN [kind |-> "change", change_type |-> "CREATED_OR_MODIFIED", has_file |-> FALSE,
              file |-> NoChange, item_id |-> item.id, item_path |-> item_path,
              is_folder |-> TRUE]
        ELSE IF "file" \in item.facets
        THEN [kind |-> "change", change_type |-> "CREATED_OR_MODIFIED", has_file |-> TRUE,
              file |-> SharePointFile(item.id, item_path, item.size, last_modified,
                                      item.cTag),
              item_id |-> item.id, item_path |-> item_path, is_folder |-> FALSE]
        ELSE NoChange

\* a delta token: None, the empty string, a deltaLink URL (which stands for the
\* drive state it was issued at), or a string that is no deltaLink
NoToken == [kind |-> "none"]
EmptyToken == [kind |-> "empty"]
DeltaLink(drive) == [kind |-> "link", snap |-> drive]
CorruptToken == [kind |-> "corrupt"]

\* a run that saves whatever token the fetch returned
TokenAlwaysTruthy(t) == TRUE

\* main.py 251: if delta_result.delta_token
TokenTruthy(t) == t.kind \in {"link", "corrupt"}

\* a page of the feed: its items, its next link ("" when it carries none) and
\* its delta link (EmptyToken when it carries none)
Page(items, nextLink, deltaLink) ==
    [items |-> items, nextLink |-> nextLink, deltaLink |-> deltaLink]

RECURSIVE ParsePage(_)
\* get_delta, the loop over the items of one page
ParsePage(items) ==
    IF items = <<>> THEN <<>>
    ELSE LET change == ParseDeltaItem(Head(items)) IN
         (IF change.kind = "change" THEN <<change>> ELSE <<>>) \o ParsePage(Tail(items))

RECURSIVE FollowPagesToFirstLink(_, _, _)
\* a paging loop that stops at the first page that carries a delta link
FollowPagesToFirstLink(pages, n, changes) ==
    LET data == pages[n]
        all == changes \o ParsePage(data.items) IN
    IF data.nextLink # "" /\ data.deltaLink = EmptyToken
    THEN FollowPagesToFirstLink(pages, n + 1, all)
    ELSE [changes |-> all, new_delta_link |-> data.deltaLink]

RECURSIVE FollowPages(_, _, _)
\* get_delta, the paging loop from page n of `pages`: pages are read while the
\* page read carries a next link; the delta link is taken from the page that
\* carries none
FollowPages(pages, n, changes) ==
    LET data == pages[n]
        all == changes \o ParsePage(data.items) IN
    IF data.nextLink # ""
    THEN FollowPages(pages, n + 1, all)
    ELSE [changes |-> all, new_delta_link |-> data.deltaLink]

\* a get_delta that hands the folder entries to its caller as well
GetDeltaWithFolders(pages) ==
    LET r == FollowPages(pages, 1, <<>>) IN
    [changes |-> r.changes, delta_token |-> r.new_delta_link]

\* get_delta: the DeltaResult for the pages the service serves
GetDelta(pages) ==
    LET r == FollowPages(pages, 1, <<>>) IN
    [changes |-> SelectSeq(r.changes, LAMBDA c : ~c.is_folder),
     delta_token |-> r.new_delta_link]

\* a get_delta that answers the failure of a GET with the changes of the pages
\* it has read so far
GetDeltaLenient(pages, failing) ==
    IF failing = 0 THEN [raised |-> FALSE, result |-> GetDelta(pages)]
    ELSE [raised |-> FALSE,
          result |-> [changes |-> IF failing = 1 THEN <<>>
                                  ELSE GetDelta([k \in 1..failing - 1 |->
                                                   IF k = failing - 1
                                                   THEN [pages[k] EXCEPT !.nextLink = ""]
                                                   ELSE pages[k]]).changes,
                      delta_token |-> EmptyToken]]

\* get_delta when the GET of page `failing` raises (0: no GET does):
\* raise_for_status lets the exception escape the paging loop, and the changes
\* collected from the pages before are dropped with it
GetDeltaOutcome(pages, failing) ==
    IF failing = 0 THEN [raised |-> FALSE, result |-> GetDelta(pages)]
    ELSE [raised |-> TRUE, result |-> [changes |-> <<>>, delta_token |-> EmptyToken]]

-----------------------------------------------------------------------------
(* Configuration (config.py) and the flags read from the environment *)

EnvGet(env, k, default) == IF k \in DOMAIN env THEN env[k] ELSE default

\* str.lower() on the flag values that occur
Lower(s) == IF s \in {"True", "TRUE"} THEN "true" ELSE s

EnvFlag(env, k) == Lower(EnvGet(env, k, "false")) = "true"

\* Config.from_environment
ConfigFromEnvironment(env) ==
    [sharepoint_site_url |-> EnvGet(env, "SHAREPOINT_SITE_URL", ""),
     sharepoint_folder_path |-> EnvGet(env, "SHAREPOINT_FOLDER_PATH", <<Slash>>),
     storage_account_name |-> EnvGet(env, "AZURE_STORAGE_ACCOUNT_NAME", ""),
     container_name |-> EnvGet(env, "AZURE_BLOB_CONTAINER_NAME", "sharepoint-sync"),
     blob_prefix |-> EnvGet(env, "AZURE_BLOB_PREFIX", <<>>),
     delete_orphaned_blobs |-> EnvFlag(env, "DELETE_ORPHANED_BLOBS"),
     dry_run |-> EnvFlag(env, "DRY_RUN")]

\* Config.validate: TRUE when it raises ValueError
ValidateRaises(cfg) ==
    \/ cfg.sharepoint_site_url = ""
    \/ cfg.storage_account_name = ""
    \/ cfg.container_name = ""

\* a run that never lets itself be forced to full mode
ForceFullSyncNever(env) == FALSE

\* main._force_full_sync
ForceFullSync(env) == EnvFlag(env, "FORCE_FULL_SYNC")

\* permissions_sync.is_permissions_sync_enabled
IsPermissionsSyncEnabled(env) == EnvFlag(env, "SYNC_PERMISSIONS")

-----------------------------------------------------------------------------
(* SyncStats *)

SyncStats ==
    [files_scanned |-> 0, files_added |-> 0, files_updated |-> 0, files_deleted |-> 0,
     files_unchanged |-> 0, files_failed |-> 0, bytes_transferred |-> 0,
     permissions_synced |-> 0, permissions_failed |-> 0, sync_mode |-> "full"]

\* a main that reports success whatever the statistics say
ExitCodeIgnoringFailures(stats) == 0

\* main.py 377-383: the exit code after a run that returned its statistics
ExitCode(stats) ==
    IF stats.files_failed > 0 \/ stats.permissions_failed > 0 THEN 1 ELSE 0

\* a main that swallows the exception that escapes the run
ExitCodeOnExceptionSwallowed(exc) == 0

\* main.py 385-391: the exit code when an exception escapes the run
ExitCodeOnException(exc) == IF exc = "ValueError" THEN 2 ELSE 1

-----------------------------------------------------------------------------
(* Permissions (permissions_sync.py) *)

METADATA_PERMISSIONS == "sharepoint_permissions"
METADATA_PERMISSIONS_SYNCED_AT == "permissions_synced_at"
METADATA_ACL_USER_IDS == "user_ids"
METADATA_ACL_GROUP_IDS == "group_ids"

RECURSIVE Rep(_, _)
\* the character `c` repeated `n` times
Rep(c, n) == IF n = 0 THEN <<>> ELSE <<c>> \o Rep(c, n - 1)

Hyphen == "-"
Newline == "\n"
Pipe == "|"

\* "00000000-0000-0000-0000-000000000000", character by character
PLACEHOLDER_NO_USERS ==
    Rep("0", 8) \o <<Hyphen>> \o Rep("0", 4) \o <<Hyphen>> \o Rep("0", 4) \o <<Hyphen>>
    \o Rep("0", 4) \o <<Hyphen>> \o Rep("0", 12)
\* "00000000-0000-0000-0000-000000000001"
PLACEHOLDER_NO_GROUPS ==
    Rep("0", 8) \o <<Hyphen>> \o Rep("0", 4) \o <<Hyphen>> \o Rep("0", 4) \o <<Hyphen>>
    \o Rep("0", 4) \o <<Hyphen>> \o Rep("0", 11) \o <<"1">>

\* demo/app.py 427: the group id the search filter uses for a caller without groups
NO_ACCESS_GUID ==
    Rep("0", 8) \o <<Hyphen>> \o Rep("0", 4) \o <<Hyphen>> \o Rep("0", 4) \o <<Hyphen>>
    \o Rep("0", 4) \o <<Hyphen>> \o Rep("0", 12)

\* identity ids that occur: Entra object ids (GUIDs), one in upper case
GuidA ==
    Rep("a", 8) \o <<Hyphen>> \o Rep("1", 4) \o <<Hyphen>> \o Rep("c", 4) \o <<Hyphen>>
    \o Rep("2", 4) \o <<Hyphen>> \o Rep("e", 12)
GuidB ==
    Rep("B", 8) \o <<Hyphen>> \o Rep("3", 4) \o <<Hyphen>> \o Rep("D", 4) \o <<Hyphen>>
    \o Rep("4", 4) \o <<Hyphen>> \o Rep("F", 12)
Guids == {GuidA, GuidB}

HexDigits ==
    {"0", "1", "2", "3", "4", "5", "6", "7", "8", "9",
     "a", "b", "c", "d", "e", "f", "A", "B", "C", "D", "E", "F"}
HyphenAt == {9, 14, 19, 24}

\* the pattern [0-9a-fA-F]{8}-[0-9a-fA-F]{4}-[0-9a-fA-F]{4}-[0-9a-fA-F]{4}-[0-9a-fA-F]{12}
\* matched on the first 36 characters of `value`
GuidPattern(value) ==
    /\ Len(value) >= 36
    /\ \A k \in 1..36 :
          IF k \in HyphenAt THEN value[k] = Hyphen ELSE value[k] \in HexDigits

\* FilePermissions._is_valid_guid: re.match(r'^...$', value); `$` matches at the
\* end of the string and also just before a newline that ends the string
IsValidGuid(value) ==
    /\ GuidPattern(value)
    /\ \/ Len(value) = 36
       \/ Len(value) = 37 /\ value[37] = Newline

\* an identity id: None, or a str given character by character
NoneId == [kind |-> "none"]
StrId(chars) == [kind |-> "str", chars |-> chars]
\* truth value of an identity id
TruthyId(id) == id.kind = "str" /\ id.chars # <<>>

SharePointPermission(identity_type, identity_id) ==
    [identity_type |-> identity_type, identity_id |-> identity_id]

RECURSIVE ExtractIds(_, _)
\* FilePermissions._extract_user_ids / _extract_group_ids, before list(set(...))
ExtractIds(permissions, kind) ==
    IF permissions = <<>> THEN <<>>
    ELSE LET perm == Head(permissions) IN
         (IF perm.identity_type = kind /\ TruthyId(perm.identity_id)
             /\ IsValidGuid(perm.identity_id.chars)
          THEN <<perm.identity_id.chars>> ELSE <<>>) \o ExtractIds(Tail(permissions), kind)

RECURSIVE Join(_, _)
\* sep.join(ids)
Join(ids, sep) ==
    IF ids = <<>> THEN <<>>
    ELSE IF Len(ids) = 1 THEN Head(ids)
    ELSE Head(ids) \o <<sep>> \o Join(Tail(ids), sep)

\* "|".join(ids) for `ids` without repetition, or the placeholder
JoinOr(ids, placeholder) ==
    [kind |-> "chars", chars |-> IF ids = <<>> THEN placeholder ELSE Join(ids, Pipe)]

\* FilePermissions.to_metadata, the user and group ids taken in the orders
\* `users` and `groups` that list(set(...)) gives them
ToMetadata(permissions, users, groups) ==
    (METADATA_PERMISSIONS :> [kind |-> "json", entries |-> permissions])
    @@ (METADATA_PERMISSIONS_SYNCED_AT :> [kind |-> "text", v |-> "now"])
    @@ (METADATA_ACL_USER_IDS :> JoinOr(users, PLACEHOLDER_NO_USERS))
    @@ (METADATA_ACL_GROUP_IDS :> JoinOr(groups, PLACEHOLDER_NO_GROUPS))

\* the metadata to_metadata can return for `permissions`
ToMetadataResults(permissions) ==
    {ToMetadata(permissions, u, g) :
        u \in Orderings(Range(ExtractIds(permissions, "user"))),
        g \in Orderings(Range(ExtractIds(permissions, "group")))}

DeprecatedFields ==
    {"metadata_user_ids", "metadata_group_ids", "acl_user_ids_list",
     "acl_group_ids_list", "metadata_acl_user_ids", "metdata_acl_group_ids"}

\* update_blob_metadata, not a dry run: the metadata set on the blob
MergedMetadata(existing_metadata, additional_metadata) ==
    LET kept == DOMAIN existing_metadata \ DeprecatedFields IN
    [k \in kept \cup DOMAIN additional_metadata |->
        IF k \in DOMAIN additional_metadata THEN additional_metadata[k]
        ELSE existing_metadata[k]]

\* update_blob_metadata(blob_name, additional_metadata, dry_run) on a blob that
\* exists; `properties_ok` is false when get_blob_properties raises, which the
\* method catches to go on with an empty existing_metadata
UpdateBlobMetadata(store, blob_name, additional_metadata, dry_run, properties_ok) ==
    IF dry_run THEN store
    ELSE [store EXCEPT ![blob_name].metadata =
              MergedMetadata(IF properties_ok THEN @ ELSE EmptyMd, additional_metadata)]

-----------------------------------------------------------------------------
(* The run: main() and sync_sharepoint_to_blob() *)

NoRequest == 0
EmptyStore == [n \in {} |-> [size |-> 0, metadata |-> EmptyMd]]

\* file_permissions of the permission loop, as the history records it: nothing
\* fetched, or the entries get_file_permissions returned for the file handled
\* last
NoFetch == [kind |-> "none"]
Fetched(permissions) == [kind |-> "list", permissions |-> permissions]

\* no run in progress
NoRun ==
    [pc |-> "none", owner |-> NoRequest, cfg |-> ConfigFromEnvironment(EmptyMd),
     sync_permissions |-> FALSE, force_full |-> FALSE, stats |-> SyncStats,
     delta_link |-> NoToken, changes |-> <<>>, delta_token |-> EmptyToken,
     files |-> <<>>, i |-> 1, existing |-> EmptyStore, order |-> <<>>, seen |-> {},
     all_files |-> <<>>, changed_files |-> <<>>, called |-> FALSE,
     exc |-> "", result |-> 0]

Prefix(rr) == BlobPrefix(rr.cfg.blob_prefix)

\* the calls of the collaborators that can end in an exception of their own
Faults == {"download", "upload", "delete", "permissions", "set_metadata"}

\* the failed calls that the blob client catches itself: get_blob_properties in
\* update_blob_metadata
SwallowedFaults == {"get_properties"}

\* main.py 207-221: a DELETED change.  Outcomes: "ok"; "delete" (the service
\* fails the call); "missing" (the service has no such blob and fails the call);
\* "directory" (the account has a hierarchical namespace, the name is that of a
\* directory that holds blobs, and the service fails the call with
\* DirectoryIsNotEmpty, which delete_blob answers by deleting recursively)
DeletedOutcomes(rr, store) ==
    LET blob_name == GetBlobName(Prefix(rr), rr.changes[rr.i].item_path) IN
    IF ~rr.cfg.delete_orphaned_blobs \/ rr.cfg.dry_run THEN {"ok"}
    ELSE IF blob_name \notin DOMAIN store
    THEN IF hist.hns /\ UnderDirectory(store, blob_name) # {}
         THEN {"directory"} ELSE {"missing"}
    ELSE {"ok", "delete"}

\* a DELETED branch that deletes whatever delete_orphaned_blobs says
DeletedChangeUngated(rr, store, o) ==
    LET blob_name == GetBlobName(Prefix(rr), rr.changes[rr.i].item_path) IN
    IF o = "ok"
    THEN [run |-> [rr EXCEPT !.stats.files_deleted = @ + 1],
          blobs |-> DeleteBlob(store, blob_name, rr.cfg.dry_run)]
    ELSE [run |-> [rr EXCEPT !.stats.files_failed = @ + 1], blobs |-> store]

\* main.py 207-221: the DELETED branch of the loop over the changes
DeletedChange(rr, store, o) ==
    LET change == rr.changes[rr.i]
        blob_name == GetBlobName(Prefix(rr), change.item_path) IN
    IF ~rr.cfg.delete_orphaned_blobs THEN [run |-> rr, blobs |-> store]
    ELSE IF o = "directory"
    THEN [run |-> [rr EXCEPT !.stats.files_deleted = @ + 1],
          blobs |-> DeleteDirectoryRecursive(store, blob_name)]
    ELSE IF o = "ok"
    THEN [run |-> [rr EXCEPT !.stats.files_deleted = @ + 1],
          blobs |-> DeleteBlob(store, blob_name, rr.cfg.dry_run)]
    ELSE [run |-> [rr EXCEPT !.stats.files_failed = @ + 1], blobs |-> store]

\* download_file then upload_blob for file f.  Outcomes: "ok"; "download" and
\* "upload" (the call fails); "raise" (upload_blob raises on a file without
\* last-modified, before it looks at dry_run)
TransferOutcomes(rr, f) ==
    IF f.last_modified.kind = "none" THEN {"raise"}
    ELSE IF rr.cfg.dry_run THEN {"ok", "download"}
    ELSE {"ok", "download", "upload"}

\* a loop over the changes that lets the failure of a transfer escape
FileChangeAborting(rr, store, o) ==
    LET sp_file == rr.changes[rr.i].file IN
    IF o = "ok"
    THEN [run |-> [rr EXCEPT !.stats.files_added = @ + 1,
                             !.stats.bytes_transferred = @ + sp_file.size,
                             !.changed_files = Append(@, sp_file)],
          blobs |-> UploadBlob(store, Prefix(rr), sp_file, sp_file.size, rr.cfg.dry_run)]
    ELSE [run |-> [rr EXCEPT !.pc = "returned", !.exc = "error", !.result = 1],
          blobs |-> store]

\* main.py 223-248: a CREATED_OR_MODIFIED change that carries a file
FileChange(rr, store, o) ==
    LET sp_file == rr.changes[rr.i].file IN
    IF o = "ok"
    THEN [run |-> [rr EXCEPT !.stats.files_added = @ + 1,
                             !.stats.bytes_transferred = @ + sp_file.size,
                             !.changed_files = Append(@, sp_file)],
          blobs |-> UploadBlob(store, Prefix(rr), sp_file, sp_file.size, rr.cfg.dry_run)]
    ELSE [run |-> [rr EXCEPT !.stats.files_failed = @ + 1], blobs |-> store]

\* the outcomes one pass of the loop over delta_result.changes can have
ChangeOutcomes(rr, store) ==
    LET change == rr.changes[rr.i] IN
    IF change.change_type = "DELETED" THEN DeletedOutcomes(rr, store)
    ELSE IF change.has_file THEN TransferOutcomes(rr, change.file)
    ELSE {"ok"}

\* main.py 204-248: one pass of the loop over delta_result.changes
ProcessChange(rr, store, o) ==
    LET change == rr.changes[rr.i]
        counted == [rr EXCEPT !.stats.files_scanned = @ + 1]
        done == IF change.change_type = "DELETED" THEN DeletedChange(counted, store, o)
                ELSE IF change.has_file THEN FileChange(counted, store, o)
                ELSE [run |-> counted, blobs |-> store] IN
    [run |-> [done.run EXCEPT !.i = @ + 1], blobs |-> done.blobs]

\* what the full-mode loop does with file f: "add", "update", "unchanged", or
\* "raise" when should_update ends with an exception
FullDecision(rr, f) ==
    LET blob_name == GetBlobName(Prefix(rr), f.path) IN
    IF blob_name \notin DOMAIN rr.existing THEN "add"
    ELSE LET u == ShouldUpdate(rr.existing[blob_name].metadata, f.last_modified,
                               f.content_hash) IN
         CASE u = "true" -> "update"
           [] u = "false" -> "unchanged"
           [] u = "raise" -> "raise"

FullOutcomes(rr) ==
    LET f == rr.files[rr.i]
        d == FullDecision(rr, f) IN
    IF d = "unchanged" THEN {"ok"}
    ELSE IF d = "raise" THEN {"raise"}
    ELSE TransferOutcomes(rr, f)

\* a pass of the loop over list_files that does not count a file it fails on
ProcessFileUncounted(rr, store, o) ==
    LET sp_file == rr.files[rr.i]
        blob_name == GetBlobName(Prefix(rr), sp_file.path)
        d == FullDecision(rr, sp_file)
        counted == [rr EXCEPT !.stats.files_scanned = @ + 1,
                              !.seen = @ \cup {blob_name},
                              !.i = @ + 1]
        uploaded == UploadBlob(store, Prefix(rr), sp_file, sp_file.size, rr.cfg.dry_run) IN
    IF o # "ok"
    THEN [run |-> counted, blobs |-> store]
    ELSE IF d = "add"
    THEN [run |-> [counted EXCEPT !.stats.files_added = @ + 1,
                                  !.stats.bytes_transferred = @ + sp_file.size,
                                  !.all_files = Append(@, sp_file)],
          blobs |-> uploaded]
    ELSE IF d = "update"
    THEN [run |-> [counted EXCEPT !.stats.files_updated = @ + 1,
                                  !.stats.bytes_transferred = @ + sp_file.size,
                                  !.all_files = Append(@, sp_file)],
          blobs |-> uploaded]
    ELSE [run |-> [counted EXCEPT !.stats.files_unchanged = @ + 1,
                                  !.all_files = Append(@, sp_file)],
          blobs |-> store]

\* main.py 286-329: one pass of the loop over list_files
ProcessFile(rr, store, o) ==
    LET sp_file == rr.files[rr.i]
        blob_name == GetBlobName(Prefix(rr), sp_file.path)
        d == FullDecision(rr, sp_file)
        counted == [rr EXCEPT !.stats.files_scanned = @ + 1,
                              !.seen = @ \cup {blob_name},
                              !.i = @ + 1]
        uploaded == UploadBlob(store, Prefix(rr), sp_file, sp_file.size, rr.cfg.dry_run) IN
    IF o # "ok"
    THEN [run |-> [counted EXCEPT !.stats.files_failed = @ + 1], blobs |-> store]
    ELSE IF d = "add"
    THEN [run |-> [counted EXCEPT !.stats.files_added = @ + 1,
                                  !.stats.bytes_transferred = @ + sp_file.size,
                                  !.all_files = Append(@, sp_file)],
          blobs |-> uploaded]
    ELSE IF d = "update"
    THEN [run |-> [counted EXCEPT !.stats.files_updated = @ + 1,
                                  !.stats.bytes_transferred = @ + sp_file.size,
                                  !.all_files = Append(@, sp_file)],
          blobs |-> uploaded]
    ELSE [run |-> [counted EXCEPT !.stats.files_unchanged = @ + 1,
                                  !.all_files = Append(@, sp_file)],
          blobs |-> store]

\* main.py 333-334: the blobs the orphan cleanup deletes, in the order of existing_blobs
Orphans(rr) == SelectSeq(rr.order, LAMBDA n : n \notin rr.seen)

\* "directory": the account has a hierarchical namespace and the orphan is a
\* directory that holds blobs (see DeletedOutcomes)
OrphanOutcomes(rr, store) ==
    IF rr.cfg.dry_run THEN {"ok"}
    ELSE IF hist.hns /\ UnderDirectory(store, Orphans(rr)[rr.i]) # {} THEN {"directory"}
    ELSE IF Orphans(rr)[rr.i] \notin DOMAIN store THEN {"missing"}
    ELSE {"ok", "delete"}

\* a cleanup that never moves on to the next orphan
DeleteOrphanAgain(rr, store, o) == [run |-> rr, blobs |-> store]

\* main.py 335-341: the cleanup of one orphan
DeleteOrphan(rr, store, o) ==
    LET blob_name == Orphans(rr)[rr.i] IN
    IF o = "directory"
    THEN [run |-> [rr EXCEPT !.stats.files_deleted = @ + 1, !.i = @ + 1],
          blobs |-> DeleteDirectoryRecursive(store, blob_name)]
    ELSE IF o = "ok"
    THEN [run |-> [rr EXCEPT !.stats.files_deleted = @ + 1, !.i = @ + 1],
          blobs |-> DeleteBlob(store, blob_name, rr.cfg.dry_run)]
    ELSE [run |-> [rr EXCEPT !.stats.files_failed = @ + 1, !.i = @ + 1], blobs |-> store]

\* the permission lists get_file_permissions can return
PermissionLists ==
    {<<>>,
     <<SharePointPermission("user", StrId(GuidA)), SharePointPermission("group", StrId(GuidB)),
       SharePointPermission("siteGroup", StrId(<<"5">>))>>}

\* main.py 116-144: outcomes of one pass of the loop of _sync_permissions_for_files.
\* "permissions" (the fetch fails), "set_metadata" (the metadata write fails),
\* "missing" (the blob does not exist and the service fails the write),
\* "get_properties" (the read of the stored metadata fails, the write succeeds)
PermissionOutcomes(rr, store, permissions) ==
    LET blob_name == GetBlobName(Prefix(rr), rr.files[rr.i].path) IN
    IF permissions = <<>> \/ rr.cfg.dry_run THEN {"ok", "permissions"}
    ELSE IF blob_name \notin DOMAIN store THEN {"missing", "permissions"}
    ELSE {"ok", "permissions", "set_metadata", "get_properties"}

\* main.py 116-144: one pass of the loop of _sync_permissions_for_files
SyncPermission(rr, store, o, perm_metadata, permissions) ==
    LET blob_name == GetBlobName(Prefix(rr), rr.files[rr.i].path)
        next == [rr EXCEPT !.i = @ + 1] IN
    IF o \notin {"ok"} \cup SwallowedFaults
    THEN [run |-> [next EXCEPT !.stats.permissions_failed = @ + 1], blobs |-> store]
    ELSE IF permissions = <<>> THEN [run |-> next, blobs |-> store]
    ELSE [run |-> [next EXCEPT !.stats.permissions_synced = @ + 1],
          blobs |-> UpdateBlobMetadata(store, blob_name, perm_metadata, rr.cfg.dry_run,
                                       o = "ok")]

\* main.py 389-391 / 385-387: an exception escapes sync_sharepoint_to_blob
Fatal(rr, exc) ==
    [rr EXCEPT !.pc = "returned", !.exc = exc, !.result = ExitCodeOnException(exc)]

\* main.py 349, 362-383: the run returns its statistics and main its exit code
Returned(rr) == [rr EXCEPT !.pc = "returned", !.result = ExitCode(rr.stats)]

RECURSIVE Settle(_)
\* the control flow between the loops of sync_sharepoint_to_blob: from the end
\* of a loop to the next call of a collaborator
Settle(rr) ==
    CASE rr.pc = "delta_loop" /\ rr.i > Len(rr.changes) ->
             Settle([rr EXCEPT !.pc = "delta_save"])
      [] rr.pc = "delta_save" /\ ~TokenTruthy(rr.delta_token) ->
             Settle([rr EXCEPT !.pc = "delta_saved"])
      [] rr.pc = "delta_saved" ->
             IF rr.sync_permissions THEN [rr EXCEPT !.pc = "perm_list"] ELSE Returned(rr)
      [] rr.pc = "full_loop" /\ rr.i > Len(rr.files) ->
             Settle([rr EXCEPT !.pc = IF rr.cfg.delete_orphaned_blobs
                                      THEN "orphans" ELSE "cleaned",
                               !.i = 1])
      [] rr.pc = "orphans" /\ rr.i > Len(Orphans(rr)) ->
             Settle([rr EXCEPT !.pc = "cleaned"])
      [] rr.pc = "cleaned" ->
             IF rr.sync_permissions
             THEN Settle([rr EXCEPT !.pc = "perm_loop", !.files = rr.all_files, !.i = 1])
             ELSE Returned(rr)
      [] rr.pc = "perm_loop" /\ rr.i > Len(rr.files) -> Returned(rr)
      [] OTHER -> rr

-----------------------------------------------------------------------------
(* The Token Store: load_delta_token / save_delta_token of the blob client  *)

\* load_delta_token: the persisted token, None when there is none or when what
\* is stored is no delta link
LoadDeltaToken(stored) == IF stored.kind = "link" THEN stored ELSE NoToken

\* a save_delta_token that persists nothing
SaveDeltaTokenDropped(stored, token, dry_run) == stored

\* save_delta_token(token, dry_run): what is persisted afterwards
SaveDeltaToken(stored, token, dry_run) == IF dry_run THEN stored ELSE token

-----------------------------------------------------------------------------
(* The delta service: the pages it serves for a token and a drive state *)

\* the drive state a delta link stands for (the empty drive without a link)
Snapshot(link) == IF link.kind = "link" THEN link.snap ELSE [x \in {} |-> 0]

\* the items deleted since the link was issued
Gone(link, drive) == DOMAIN Snapshot(link) \ DOMAIN drive

\* the raw items of the feed: every file when there is no token, else the
\* files that differ from the token's drive state and the items deleted since
FeedItems(link, drive, details) ==
    LET old == Snapshot(link)
        changed == {id \in DOMAIN drive : id \notin DOMAIN old \/ old[id] # drive[id]}
        gone == Gone(link, drive) IN
    {RawFile(id, drive[id]) : id \in changed}
    \cup {RawDeleted(id, details[id]) : id \in gone}
    \cup (IF \E id \in changed \cup gone : ItemParent(id) # <<>>
          THEN {RawFolder(<<"d">>)} ELSE {})

\* the ways of serving the items `order` as one page or as two
Pagings(order, new_link) ==
    {<<Page(order, "", new_link)>>}
    \cup {<<Page(SubSeq(order, 1, k), "next", EmptyToken),
            Page(SubSeq(order, k + 1, Len(order)), "", new_link)>> : k \in 1..Len(order) - 1}

-----------------------------------------------------------------------------
(* Bounds on what a behaviour of the model contains *)

MaxRequests == 2      \* trigger requests
MaxFaults == 1        \* collaborator calls that fail
MaxChanges == 1       \* changes made to the drive between runs
MaxSwallowed == 1     \* failed calls that the blob client catches itself

-----------------------------------------------------------------------------
(* The HTTP trigger (function_app.py) *)

OverrideKeys == {"FORCE_FULL_SYNC", "DRY_RUN", "DELETE_ORPHANED_BLOBS", "SYNC_PERMISSIONS"}
NoOverrides == [k \in {} |-> ""]

NewRequest ==
    [pc |-> "new", overrides |-> NoOverrides, previous_values |-> NoOverrides,
     exit_code |-> 0]

Running == {r \in DOMAIN req : req[r].pc = "running"}

\* sharepoint_sync_http up to the call of _run_sync, which blocks on the lock
Trigger(r, overrides) ==
    /\ req[r].pc = "new"
    /\ hist.sequential => \A q \in DOMAIN req : req[q].pc \in {"new", "done", "raised"}
    /\ req' = [req EXCEPT ![r].pc = "waiting", ![r].overrides = overrides]
    /\ UNCHANGED <<remote, blobs, tokenStore, environ, lock, run, hist, fn>>

\* a trigger that never waits for the lock
LockIgnored == TRUE

\* function_app.py 30: with _sync_lock
LockFree == lock = NoRequest

\* _run_sync 30-37: the lock is taken, the overrides are put into the
\* environment and main() is started
Acquire(r) ==
    /\ req[r].pc = "waiting"
    /\ LockFree
    /\ lock' = r
    /\ LET ov == req[r].overrides IN
       /\ req' = [req EXCEPT ![r].pc = "running",
                             ![r].previous_values =
                                 [k \in DOMAIN ov |-> EnvGet(environ, k, NoneStr)]]
       /\ environ' = [k \in DOMAIN environ \cup DOMAIN ov |->
                         IF k \in DOMAIN ov THEN ov[k] ELSE environ[k]]
    /\ run' = [NoRun EXCEPT !.pc = "main", !.owner = r]
    /\ UNCHANGED <<remote, blobs, tokenStore, hist, fn>>

\* a finally block that restores nothing
NotRestored(env, previous_values) == env

\* _run_sync 38-43: the environment after the finally block
Restored(env, previous_values) ==
    LET popped == {k \in DOMAIN previous_values : previous_values[k] = NoneStr} IN
    [k \in (DOMAIN env \cup DOMAIN previous_values) \ popped |->
        IF k \in DOMAIN previous_values THEN previous_values[k] ELSE env[k]]

\* a trigger that leaves _run_sync still holding the lock
StillLocked(r) == r

\* function_app.py 30: the lock after the with block of _run_sync is left
Unlocked(r) == NoRequest

\* _run_sync 37-43: main() has returned or raised; the finally block restores
\* the environment and the with block releases the lock
Release(r) ==
    /\ lock = r
    /\ run.owner = r
    /\ run.pc \in {"returned", "raised"}
    /\ environ' = Restored(environ, req[r].previous_values)
    /\ lock' = Unlocked(r)
    /\ req' = [req EXCEPT ![r] = [NewRequest EXCEPT
                                     !.pc = IF run.pc = "raised" THEN "raised" ELSE "done",
                                     !.exit_code = run.result]]
    /\ hist' = [hist EXCEPT !.last = [kind |-> "run", pc |-> run.pc, exc |-> run.exc,
                                      cfg |-> run.cfg, sync_mode |-> run.stats.sync_mode,
                                      failed |-> run.stats.files_failed
                                                 + run.stats.permissions_failed],
                            !.remoteSame = TRUE,
                            !.startBlobs = EmptyStore, !.startToken = NoToken,
                            !.startRemote = EmptyStore, !.fault = "",
                            !.lastStartToken = IF hist.observeTokens THEN hist.startToken
                                               ELSE @,
                            !.lastNewToken = IF hist.observeTokens THEN run.delta_token
                                             ELSE @]
    /\ run' = NoRun
    /\ UNCHANGED <<remote, blobs, tokenStore, fn>>

-----------------------------------------------------------------------------
(* The steps of main() *)

CanFault == hist.faultsLeft > 0
Faulted(h, kind) == [h EXCEPT !.faultsLeft = @ - 1, !.fault = kind]

\* the failures left that the blob client catches itself
CanSwallow == hist.swallowedLeft > 0
Swallowed(h) == [h EXCEPT !.swallowedLeft = @ - 1]

\* main.py 354-357 and 163-165: the configuration is loaded and validated, the
\* flags are read
MainStart ==
    /\ run.pc = "main"
    /\ LET cfg == ConfigFromEnvironment(environ) IN
       run' = IF ValidateRaises(cfg)
              THEN Fatal([run EXCEPT !.cfg = cfg], "ValueError")
              ELSE [run EXCEPT !.pc = "resolve", !.cfg = cfg,
                               !.sync_permissions = IsPermissionsSyncEnabled(environ),
                               !.force_full = ForceFullSync(environ)]
    /\ UNCHANGED <<remote, blobs, tokenStore, environ, lock, req, hist, fn>>

\* main.py 178: SharePointClient.__aenter__ calls _resolve_ids, which asks Graph
\* for the site and its drives and raises ValueError when it finds none
ResolveIds ==
    /\ run.pc = "resolve"
    /\ \E o \in {"ok", "ValueError", "error"} :
        /\ o # "ok" => CanFault
        /\ run' = IF o = "ok" THEN [run EXCEPT !.pc = "open", !.called = TRUE]
                  ELSE Fatal([run EXCEPT !.called = TRUE], o)
        /\ hist' = IF o = "ok" THEN hist ELSE Faulted(hist, "resolve")
    /\ UNCHANGED <<remote, blobs, tokenStore, environ, lock, req, fn>>

\* a run that takes every delta run for an incremental one
SyncModeIncremental(delta_link) == "delta-incremental"

\* main.py 196: the mode of a delta run
SyncMode(delta_link) ==
    IF delta_link.kind = "none" THEN "delta-initial" ELSE "delta-incremental"

\* main.py 182-197 and 273-276: the blob client is opened, the token is loaded
\* unless a full sync is forced, and the mode is chosen
BeginSync ==
    /\ run.pc = "open"
    /\ LET delta_link == IF ~run.force_full THEN LoadDeltaToken(tokenStore) ELSE NoToken IN
       /\ run' = IF delta_link.kind = "link" \/ ~run.force_full
                 THEN [run EXCEPT !.pc = "delta_fetch", !.delta_link = delta_link,
                                  !.stats.sync_mode = SyncMode(delta_link)]
                 ELSE [run EXCEPT !.pc = "full_blobs", !.stats.sync_mode = "full"]
       /\ hist' = [hist EXCEPT !.startBlobs = blobs, !.startToken = tokenStore,
                               !.startRemote = remote,
                               !.tokenOps = IF run.force_full THEN @
                                            ELSE Append(@, [r |-> run.owner, op |-> "read",
                                                            running |-> Running])]
    /\ UNCHANGED <<remote, blobs, tokenStore, environ, lock, req, fn>>

\* the entries the feed carries for folders that hold no file of the drive: an
\* empty folder that was created, or one that was deleted (served in the
\* behaviours that record the feed)
FolderEvents ==
    IF hist.observeFeed
    THEN {{}, {RawFolder(<<"e">>)}, {RawDeletedFolder(<<"e">>)}}
    ELSE {{}}

\* main.py 199: get_delta
FetchDelta ==
    /\ run.pc = "delta_fetch"
    /\ \/ \E details \in [Gone(run.delta_link, remote) -> DeletedDetails],
               gives_link \in BOOLEAN, folders \in FolderEvents :
            \E order \in Orderings(FeedItems(run.delta_link, remote, details)
                                    \cup folders) :
               \E pages \in Pagings(order, IF gives_link THEN DeltaLink(remote)
                                           ELSE EmptyToken) :
                  LET delta_result == GetDeltaOutcome(pages, 0).result IN
                  /\ run' = Settle([run EXCEPT !.pc = "delta_loop", !.i = 1,
                                               !.changes = delta_result.changes,
                                               !.delta_token = delta_result.delta_token])
                  /\ hist' = IF hist.observeFeed THEN [hist EXCEPT !.feed = order]
                             ELSE hist
       \/ \E details \in [Gone(run.delta_link, remote) -> DeletedDetails],
               exc \in {"ValueError", "error"} :
            \E order \in Orderings(FeedItems(run.delta_link, remote, details)) :
               \E pages \in Pagings(order, DeltaLink(remote)) :
                  \E failing \in 1..Len(pages) :
                     LET outcome == GetDeltaOutcome(pages, failing)
                         delta_result == outcome.result IN
                     /\ CanFault
                     /\ run' = IF outcome.raised THEN Fatal(run, exc)
                               ELSE Settle([run EXCEPT
                                               !.pc = "delta_loop", !.i = 1,
                                               !.changes = delta_result.changes,
                                               !.delta_token = delta_result.delta_token])
                     /\ hist' = Faulted(hist, "get_delta")
    /\ UNCHANGED <<remote, blobs, tokenStore, environ, lock, req, fn>>

\* main.py 204-248: the next change of the delta result
DeltaChange ==
    /\ run.pc = "delta_loop"
    /\ \E o \in ChangeOutcomes(run, blobs) :
        /\ o \in Faults => CanFault
        /\ LET done == ProcessChange(run, blobs, o) IN
           /\ run' = Settle(done.run)
           /\ blobs' = done.blobs
        /\ hist' = IF o \in Faults THEN Faulted(hist, o) ELSE hist
    /\ UNCHANGED <<remote, tokenStore, environ, lock, req, fn>>

\* main.py 251-253: the new token is persisted
SaveToken ==
    /\ run.pc = "delta_save"
    /\ \/ /\ tokenStore' = SaveDeltaToken(tokenStore, run.delta_token, run.cfg.dry_run)
          /\ run' = Settle([run EXCEPT !.pc = "delta_saved"])
          /\ hist' = [hist EXCEPT !.tokenOps = Append(@, [r |-> run.owner, op |-> "write",
                                                          running |-> Running])]
       \/ /\ CanFault /\ ~run.cfg.dry_run
          /\ run' = Fatal(run, "error")
          /\ hist' = Faulted(hist, "save_token")
          /\ UNCHANGED tokenStore
    /\ UNCHANGED <<remote, blobs, environ, lock, req, fn>>

\* main.py 266-268: in delta mode the files are listed for the permissions
ListForPermissions ==
    /\ run.pc = "perm_list"
    /\ \/ \E files \in Orderings(ListFiles(remote, run.cfg.sharepoint_folder_path)) :
            /\ run' = Settle([run EXCEPT !.pc = "perm_loop", !.files = files, !.i = 1])
            /\ hist' = hist
       \/ /\ CanFault
          /\ run' = Fatal(run, "error")
          /\ hist' = Faulted(hist, "listing")
    /\ UNCHANGED <<remote, blobs, tokenStore, environ, lock, req, fn>>

\* main.py 116-144: the permissions of the next file
PermissionStep ==
    /\ run.pc = "perm_loop"
    /\ \E permissions \in PermissionLists :
         \E perm_metadata \in ToMetadataResults(permissions) :
           \E o \in PermissionOutcomes(run, blobs, permissions) :
             /\ o \in Faults => CanFault
             /\ o \in SwallowedFaults => CanSwallow
             /\ LET done == SyncPermission(run, blobs, o, perm_metadata, permissions) IN
                /\ run' = Settle(done.run)
                /\ blobs' = done.blobs
             /\ LET h == IF o \in Faults THEN Faulted(hist, o)
                         ELSE IF o \in SwallowedFaults THEN Swallowed(hist)
                         ELSE hist IN
                hist' = IF ~hist.observeFetched THEN h
                        ELSE [h EXCEPT !.fetched = IF o = "permissions" THEN NoFetch
                                                   ELSE Fetched(permissions)]
    /\ UNCHANGED <<remote, tokenStore, environ, lock, req, fn>>

\* main.py 278-286: the existing blobs are listed and list_files is started
ListExisting ==
    /\ run.pc = "full_blobs"
    /\ \/ LET names == ListBlobs(blobs, Prefix(run)) IN
          \E order \in Orderings(names) :
            \E files \in Orderings(ListFiles(remote, run.cfg.sharepoint_folder_path)) :
              /\ run' = Settle([run EXCEPT !.pc = "full_loop", !.i = 1,
                                           !.existing = [n \in names |-> blobs[n]],
                                           !.order = order, !.files = files])
              /\ hist' = hist
       \/ /\ CanFault
          /\ run' = Fatal(run, "error")
          /\ hist' = Faulted(hist, "listing")
    /\ UNCHANGED <<remote, blobs, tokenStore, environ, lock, req, fn>>

\* main.py 286-329: the next file of list_files
FullFile ==
    /\ run.pc = "full_loop"
    /\ \E o \in FullOutcomes(run) :
        /\ o \in Faults => CanFault
        /\ LET done == ProcessFile(run, blobs, o) IN
           /\ run' = Settle(done.run)
           /\ blobs' = done.blobs
        /\ hist' = IF o \in Faults THEN Faulted(hist, o) ELSE hist
    /\ UNCHANGED <<remote, tokenStore, environ, lock, req, fn>>

\* main.py 286: list_files raises while it is iterated
ListingFails ==
    /\ run.pc = "full_loop"
    /\ CanFault
    /\ run' = Fatal(run, "error")
    /\ hist' = Faulted(hist, "listing")
    /\ UNCHANGED <<remote, blobs, tokenStore, environ, lock, req, fn>>

\* main.py 332-341: the next orphan
OrphanStep ==
    /\ run.pc = "orphans"
    /\ \E o \in OrphanOutcomes(run, blobs) :
        /\ o \in Faults => CanFault
        /\ LET done == DeleteOrphan(run, blobs, o) IN
           /\ run' = Settle(done.run)
           /\ blobs' = done.blobs
        /\ hist' = IF o \in Faults THEN Faulted(hist, o) ELSE hist
    /\ UNCHANGED <<remote, tokenStore, environ, lock, req, fn>>

\* function_app.py 37: asyncio.run(run_sync()) raises: an exception that main()
\* does not catch (it catches Exception) ends the run
RunRaises ==
    /\ run.pc \in {"resolve", "open", "delta_fetch", "delta_loop", "delta_save",
                   "perm_list", "perm_loop", "full_blobs", "full_loop", "orphans"}
    /\ CanFault
    /\ run' = [run EXCEPT !.pc = "raised", !.exc = "BaseException"]
    /\ hist' = Faulted(hist, "raised")
    /\ UNCHANGED <<remote, blobs, tokenStore, environ, lock, req, fn>>

-----------------------------------------------------------------------------
(* The drive changes while no run is in progress *)

RemoteChange ==
    /\ run.pc = "none"
    /\ \A r \in DOMAIN req : req[r].pc \in {"new", "done", "raised"}
    /\ hist.changesLeft > 0
    /\ \/ \E id \in Ids \ DOMAIN remote, size \in Sizes :
            remote' = [x \in DOMAIN remote \cup {id} |->
                          IF x = id THEN [size |-> size, v |-> 1] ELSE remote[x]]
       \/ \E id \in DOMAIN remote, size \in Sizes :
            /\ remote[id].v < MaxTime
            /\ remote' = [remote EXCEPT ![id] = [size |-> size, v |-> @.v + 1]]
       \/ \E id \in DOMAIN remote :
            remote' = [x \in DOMAIN remote \ {id} |-> remote[x]]
    /\ hist' = [hist EXCEPT !.changesLeft = @ - 1, !.remoteSame = FALSE]
    /\ UNCHANGED <<blobs, tokenStore, environ, lock, req, run, fn>>

-----------------------------------------------------------------------------
(* Specification: trigger requests served one after the other *)

Requests == 1..MaxRequests

\* the environment of the process: the variables of config.py that are set
Environment(with_site, folder, prefix) ==
    [k \in IF with_site THEN {"SHAREPOINT_SITE_URL", "AZURE_STORAGE_ACCOUNT_NAME",
                              "SHAREPOINT_FOLDER_PATH", "AZURE_BLOB_PREFIX"}
           ELSE {"AZURE_STORAGE_ACCOUNT_NAME", "SHAREPOINT_FOLDER_PATH",
                 "AZURE_BLOB_PREFIX"} |->
        CASE k = "SHAREPOINT_SITE_URL" -> "https://contoso.sharepoint.com/sites/MySite"
          [] k = "AZURE_STORAGE_ACCOUNT_NAME" -> "account"
          [] k = "SHAREPOINT_FOLDER_PATH" -> folder
          [] k = "AZURE_BLOB_PREFIX" -> prefix]

\* the drive states with only the items `ids`, each in its first version; the
\* file L may be empty
FirstDrives(ids) ==
    {d \in UNION {[S -> RemoteFiles] : S \in SUBSET ids} :
        \A id \in DOMAIN d : d[id].v = 1 /\ (id # "i2" => d[id].size = 1)}

\* the container after a run without failures has synced drive state `drive`
SyncedStore(drive, prefix) ==
    LET files == ListFiles(drive, <<Slash>>)
        names == {GetBlobName(prefix, f.path) : f \in files} IN
    [n \in names |->
        LET f == CHOOSE x \in files : GetBlobName(prefix, x.path) = n IN
        [size |-> f.size, metadata |-> UploadMetadata(f)]]

History(sequential, faults, changes) ==
    [sequential |-> sequential, faultsLeft |-> faults, changesLeft |-> changes,
     swallowedLeft |-> 0, observeFetched |-> FALSE, fetched |-> NoFetch,
     observeFeed |-> FALSE, feed |-> <<>>, hns |-> FALSE,
     observeTokens |-> FALSE, lastStartToken |-> NoToken, lastNewToken |-> EmptyToken,
     startBlobs |-> EmptyStore, startToken |-> NoToken, startRemote |-> EmptyStore,
     last |-> [kind |-> "none"], remoteSame |-> TRUE, tokenOps |-> <<>>, fault |-> ""]

NoCall == [op |-> "none"]

\* The process starts with the state an earlier run left: the container holds
\* the artifacts of the drive state that run saw, and its token is persisted
\* or not.
Init ==
    /\ \E prior \in FirstDrives({"i1", "i2"}) :
        /\ remote = prior
        /\ blobs = SyncedStore(prior, <<>>)
        /\ tokenStore \in {NoToken, DeltaLink(prior)}
    /\ environ \in {Environment(with_site, <<Slash>>, <<>>) : with_site \in BOOLEAN}
    /\ lock = NoRequest
    /\ req = [r \in {1} |-> NewRequest]
    /\ run = NoRun
    /\ hist = History(TRUE, MaxFaults, MaxChanges)
    /\ fn = NoCall

AllOverrides == [OverrideKeys -> {"true", "false"}]

RunStep ==
    \/ MainStart
    \/ ResolveIds
    \/ BeginSync
    \/ FetchDelta
    \/ DeltaChange
    \/ SaveToken
    \/ ListForPermissions
    \/ PermissionStep
    \/ ListExisting
    \/ FullFile
    \/ ListingFails
    \/ OrphanStep
    \/ RunRaises

Next ==
    \/ \E r \in DOMAIN req : \E overrides \in AllOverrides : Trigger(r, overrides)
    \/ \E r \in DOMAIN req : Acquire(r)
    \/ \E r \in DOMAIN req : Release(r)
    \/ RunStep
    \/ RemoteChange

Spec == Init /\ [][Next]_vars

-----------------------------------------------------------------------------
(* Specification: should_update applied to a stored artifact and a remote file *)

Hashes == {NoneStr, "", CTag(1), CTag(2)}

StoredDates ==
    [kind : {"iso"}, wall : 1..MaxTime, sfx : {"", "Z", "+00:00", "+01:00"}]
    \cup {[kind |-> "text", v |-> "yesterday"]}

\* the metadata mappings a blob can carry: none, or the item id with or without
\* the two fields should_update reads
StoredMetadata ==
    {EmptyMd}
    \cup {(METADATA_SP_ITEM_ID :> "i1")}
    \cup {(METADATA_SP_ITEM_ID :> "i1") @@ (METADATA_SP_CONTENT_HASH :> h) :
             h \in Hashes \ {NoneStr}}
    \cup {(METADATA_SP_ITEM_ID :> "i1") @@ (METADATA_SP_LAST_MODIFIED :> d) :
             d \in StoredDates}
    \cup {(METADATA_SP_ITEM_ID :> "i1") @@ (METADATA_SP_LAST_MODIFIED :> d)
          @@ (METADATA_SP_CONTENT_HASH :> h) : d \in StoredDates, h \in Hashes \ {NoneStr}}

Idle ==
    /\ remote = EmptyStore
    /\ blobs = EmptyStore
    /\ tokenStore = NoToken
    /\ environ = Environment(TRUE, <<Slash>>, <<>>)
    /\ lock = NoRequest
    /\ req = [r \in {1} |-> NewRequest]
    /\ run = NoRun
    /\ hist = History(TRUE, 0, 0)

InitStale ==
    /\ Idle
    /\ fn \in [op : {"should_update"}, metadata : StoredMetadata,
               sp_last_modified : DateTimes \cup {NoneDt}, sp_content_hash : Hashes,
               result : {"pending"}]

\* main.py 308: blob_client.should_update(existing_blob, last_modified, content_hash)
CallShouldUpdate ==
    /\ fn.op = "should_update"
    /\ fn.result = "pending"
    /\ fn' = [fn EXCEPT !.result = ShouldUpdate(fn.metadata, fn.sp_last_modified,
                                                fn.sp_content_hash)]
    /\ UNCHANGED <<remote, blobs, tokenStore, environ, lock, req, run, hist>>

NextStale == CallShouldUpdate

SpecStale == InitStale /\ [][NextStale]_vars

\* the artifact of the call carries a stored last-modified that is a timestamp
StoredDateParses ==
    /\ MdHas(fn.metadata, METADATA_SP_LAST_MODIFIED)
    /\ FromIsoFormat(ReplaceZ(fn.metadata[METADATA_SP_LAST_MODIFIED])).kind = "dt"

\* the stored timestamp of the call denotes the instant of the remote one
SameInstant ==
    /\ MdHas(fn.metadata, METADATA_SP_LAST_MODIFIED)
    /\ fn.sp_last_modified.kind = "dt"
    /\ LET stored == FromIsoFormat(ReplaceZ(fn.metadata[METADATA_SP_LAST_MODIFIED])) IN
       /\ stored.kind = "dt"
       /\ Instant(AssumeUtc(stored)) = Instant(AssumeUtc(fn.sp_last_modified))

\* C4: fingerprint wins.  When the stored fingerprint equals the remote one,
\* should_update returns false whatever the two timestamps are; when the two
\* fingerprints differ and the timestamps are identical, it returns true.
C4_FingerprintWins ==
    (fn.op = "should_update" /\ fn.result # "pending") =>
        LET stored_hash == MdGet(fn.metadata, METADATA_SP_CONTENT_HASH) IN
        /\ (Truthy(stored_hash) /\ stored_hash = fn.sp_content_hash
            /\ fn.sp_last_modified.kind = "dt" /\ StoredDateParses)
               => fn.result = "false"
        /\ (Truthy(stored_hash) /\ Truthy(fn.sp_content_hash)
            /\ stored_hash # fn.sp_content_hash /\ SameInstant)
               => fn.result = "true"

-----------------------------------------------------------------------------
(* Exit status of main() *)

\* main() has returned after the run completed
Completed == run.pc = "returned" /\ run.exc = ""

\* main() has returned because Config.validate() raised
ValidationFailed == run.pc = "returned" /\ run.exc # "" /\ ValidateRaises(run.cfg)

\* main() has returned because an exception escaped the run itself
FatalError == run.pc = "returned" /\ run.exc # "" /\ ~ValidateRaises(run.cfg)

Failures == run.stats.files_failed + run.stats.permissions_failed

\* C6: status mapping.  main() returns 0 exactly when the run completed with
\* files_failed = 0 and permissions_failed = 0, 1 when it completed with at
\* least one per-item failure, and 2 when configuration validation failed.
C6_StatusMapping ==
    run.pc = "returned" =>
        /\ run.result = 0 <=> (Completed /\ Failures = 0)
        /\ (Completed /\ Failures > 0) => run.result = 1
        /\ ValidationFailed => run.result = 2

C6_Witness == Completed /\ run.stats.files_failed > 0 /\ run.result = 1

C8_StatusTwoBeforeRemoteCalls == (run.pc = "returned" /\ run.result = 2) => ~run.called

-----------------------------------------------------------------------------
(* Per-item failures *)

ItemLoops == {"delta_loop", "full_loop", "orphans", "perm_loop"}

\* a step that handles one item of a loop: a change, a listed file, an orphan
\* or the permissions of a file
ItemStep ==
    /\ run.pc \in ItemLoops
    /\ run' # run
    /\ ~(hist'.faultsLeft < hist.faultsLeft /\ hist'.fault \notin Faults)

\* a collaborator call for the item of this step has failed
ItemFailed == hist'.faultsLeft < hist.faultsLeft /\ hist'.fault \in Faults

\* the step has counted one failure and left the run in progress or completed
CountedAndContinued ==
    /\ run'.exc = ""
    /\ run'.pc # "raised"
    /\ run'.stats.files_failed + run'.stats.permissions_failed = Failures + 1
    /\ run'.pc = run.pc => run'.i = run.i + 1

\* every item of the completed run was handled
AllItemsHandled ==
    /\ run.stats.sync_mode # "full" => run.stats.files_scanned = Len(run.changes)
    /\ run.stats.sync_mode = "full" =>
           /\ run.stats.files_scanned = Cardinality(ListFiles(remote, run.cfg.sharepoint_folder_path))
           /\ run.stats.files_added + run.stats.files_updated + run.stats.files_unchanged
                 + run.stats.files_deleted + run.stats.files_failed
              = run.stats.files_scanned
                 + (IF run.cfg.delete_orphaned_blobs THEN Len(Orphans(run)) ELSE 0)
    /\ run.sync_permissions => run.i = Len(run.files) + 1

\* C5: per-item failure isolation.  In both modes a failure while an item is
\* processed is counted (files_failed or permissions_failed goes up by one) and
\* does not end the run: the loop goes on with the next item, and a run that
\* completes has handled every item.
C5_FailureIsolation ==
    /\ [][(ItemStep /\ ItemFailed) => CountedAndContinued]_vars
    /\ [][ItemStep => (run'.exc = "" /\ run'.pc # "raised")]_vars
    /\ [](Completed => AllItemsHandled)

\* the first listed file failed and every later one was transferred or kept
C5_Witness ==
    /\ Completed
    /\ run.stats.sync_mode = "full" /\ ~run.sync_permissions
    /\ Len(run.files) >= 2
    /\ run.stats.files_failed = 1
    /\ \A k \in 1..Len(run.all_files) : run.all_files[k] # run.files[1]
    /\ Len(run.all_files) = Len(run.files) - 1

-----------------------------------------------------------------------------
(* Orphans in full mode *)

\* the blob names of the files the drive lists under the configured folder
ListedNames ==
    {GetBlobName(Prefix(run), f.path) :
        f \in ListFiles(remote, run.cfg.sharepoint_folder_path)}

\* the artifacts under the prefix that the run found and that stand for no
\* listed file
OrphansAtStart ==
    {n \in DOMAIN hist.startBlobs :
        StartsWith(n, Prefix(run)) /\ n \notin ListedNames}

\* C3: orphan gating in full mode.  After a full run that is no dry run and
\* had no failure, an artifact under the prefix that stands for no listed
\* remote file is gone exactly when the delete flag is enabled, and is left
\* as it was when the flag is disabled.
C3_OrphanGating ==
    (Completed /\ run.stats.sync_mode = "full" /\ ~run.cfg.dry_run /\ Failures = 0) =>
        \A n \in OrphansAtStart :
            /\ n \notin DOMAIN blobs <=> run.cfg.delete_orphaned_blobs
            /\ ~run.cfg.delete_orphaned_blobs => blobs[n] = hist.startBlobs[n]

-----------------------------------------------------------------------------
(* The two strategies compared *)

RECURSIVE FullFiles(_, _)
\* main.py 286-329: the loop over list_files when no collaborator call fails
FullFiles(rr, store) ==
    IF rr.i > Len(rr.files) THEN [run |-> rr, blobs |-> store]
    ELSE LET o == IF "ok" \in FullOutcomes(rr) THEN "ok" ELSE "raise"
             done == ProcessFile(rr, store, o) IN
         FullFiles(done.run, done.blobs)

RECURSIVE FullOrphans(_, _)
\* main.py 332-341: the orphan cleanup when no collaborator call fails
FullOrphans(rr, store) ==
    IF ~rr.cfg.delete_orphaned_blobs \/ rr.i > Len(Orphans(rr))
    THEN [run |-> rr, blobs |-> store]
    ELSE LET o == IF "ok" \in OrphanOutcomes(rr, store) THEN "ok" ELSE "missing"
             done == DeleteOrphan(rr, store, o) IN
         FullOrphans(done.run, done.blobs)

\* main.py 278-341: the container a full-mode run under configuration cfg
\* leaves when it starts on container `store` and drive state `drive`
FullSync(cfg, store, drive) ==
    LET names == ListBlobs(store, BlobPrefix(cfg.blob_prefix))
        start == [NoRun EXCEPT !.pc = "full_loop", !.cfg = cfg,
                               !.stats.sync_mode = "full",
                               !.existing = [n \in names |-> store[n]],
                               !.order = CHOOSE order \in Orderings(names) : TRUE,
                               !.files = CHOOSE files \in Orderings(
                                             ListFiles(drive, cfg.sharepoint_folder_path)) : TRUE]
        listed == FullFiles(start, store) IN
    FullOrphans([listed.run EXCEPT !.i = 1], listed.blobs).blobs

\* the artifact set of a container: keys, sizes and stored fingerprints
Artifacts(store) ==
    [n \in DOMAIN store |->
        [size |-> store[n].size,
         content_hash |-> MdGet(store[n].metadata, METADATA_SP_CONTENT_HASH)]]

\* the delta run started on the container that a run without failures had
\* left for the drive state of its token (an empty one when it had no token)
StartedInStep ==
    hist.startBlobs = SyncedStore(Snapshot(run.delta_link), run.cfg.blob_prefix)

\* C2: equivalence of strategies.  A delta run that is no dry run, completes
\* without failures and started on the container matching its token ends with
\* the artifact set (keys, sizes, stored fingerprints) that one full-mode run
\* from the same container on the same drive state produces, whatever the
\* order and the paging of the changes.
C2_Equivalence ==
    (Completed /\ run.stats.sync_mode # "full" /\ ~run.cfg.dry_run /\ Failures = 0
     /\ StartedInStep) =>
        Artifacts(blobs) = Artifacts(FullSync(run.cfg, hist.startBlobs, remote))

-----------------------------------------------------------------------------
(* Specification: full-mode runs one after the other *)

\* FORCE_FULL_SYNC=true is set in the environment of the process; the container
\* is empty or holds what an earlier run left
InitFullRuns ==
    /\ \E prior \in FirstDrives({"i1", "i2"}) :
        /\ remote = prior
        /\ blobs \in {EmptyStore, SyncedStore(prior, <<>>)}
    /\ tokenStore = NoToken
    /\ environ = [k \in DOMAIN Environment(TRUE, <<Slash>>, <<>>) \cup {"FORCE_FULL_SYNC"} |->
                     IF k = "FORCE_FULL_SYNC" THEN "true"
                     ELSE Environment(TRUE, <<Slash>>, <<>>)[k]]
    /\ lock = NoRequest
    /\ req = [r \in Requests |-> NewRequest]
    /\ run = NoRun
    /\ hist = History(TRUE, MaxFaults, MaxChanges)
    /\ fn = NoCall

FullRunOverrides == [{"DRY_RUN", "DELETE_ORPHANED_BLOBS"} -> {"true", "false"}]

NextFullRuns ==
    \/ \E r \in DOMAIN req : \E overrides \in FullRunOverrides : Trigger(r, overrides)
    \/ \E r \in DOMAIN req : Acquire(r)
    \/ \E r \in DOMAIN req : Release(r)
    \/ MainStart
    \/ ResolveIds
    \/ BeginSync
    \/ ListExisting
    \/ FullFile
    \/ ListingFails
    \/ OrphanStep
    \/ RunRaises
    \/ RemoteChange

SpecFullRuns == InitFullRuns /\ [][NextFullRuns]_vars

\* the run before this one was a full-mode run under the same configuration,
\* no dry run, that completed without failures, and the drive has not changed
\* since
AfterCleanFullRun ==
    /\ hist.last.kind = "run"
    /\ hist.last.pc = "returned" /\ hist.last.exc = ""
    /\ hist.last.sync_mode = "full"
    /\ hist.last.failed = 0
    /\ ~hist.last.cfg.dry_run
    /\ hist.last.cfg = run.cfg
    /\ hist.remoteSame

\* C1: idempotence of full mode.  A full-mode run that immediately follows a
\* full-mode run which was no dry run and completed without failures, the
\* drive unchanged in between, reports files_added = 0, files_updated = 0 and
\* files_deleted = 0.
C1_Idempotence ==
    (Completed /\ run.stats.sync_mode = "full" /\ AfterCleanFullRun) =>
        /\ run.stats.files_added = 0
        /\ run.stats.files_updated = 0
        /\ run.stats.files_deleted = 0

-----------------------------------------------------------------------------
(* Specification: trigger requests that arrive while a run is in progress *)

\* one file on the drive, an empty container, no token; the site URL is set
\* or missing
InitTrigger ==
    /\ remote = [id \in {"i3"} |-> [size |-> 1, v |-> 1]]
    /\ blobs = EmptyStore
    /\ tokenStore = NoToken
    /\ environ \in {Environment(with_site, <<Slash>>, <<>>) : with_site \in BOOLEAN}
    /\ lock = NoRequest
    /\ req = [r \in Requests |-> NewRequest]
    /\ run = NoRun
    /\ hist = History(FALSE, MaxFaults, 0)
    /\ fn = NoCall

TriggerOverrides == [{"FORCE_FULL_SYNC"} -> {"true", "false"}]

NextTrigger ==
    \/ \E r \in DOMAIN req : \E overrides \in TriggerOverrides : Trigger(r, overrides)
    \/ \E r \in DOMAIN req : Acquire(r)
    \/ \E r \in DOMAIN req : Release(r)
    \/ MainStart
    \/ ResolveIds
    \/ BeginSync
    \/ FetchDelta
    \/ DeltaChange
    \/ SaveToken
    \/ ListExisting
    \/ FullFile
    \/ ListingFails
    \/ RunRaises

SpecTrigger == InitTrigger /\ [][NextTrigger]_vars

\* the token reads and writes of one run are not separated by those of another
TokenOpsNotInterleaved ==
    /\ \A k \in 1..Len(hist.tokenOps) : hist.tokenOps[k].running = {hist.tokenOps[k].r}
    /\ \A i, j, k \in 1..Len(hist.tokenOps) :
          (i < j /\ j < k /\ hist.tokenOps[i].r = hist.tokenOps[k].r)
             => hist.tokenOps[j].r = hist.tokenOps[i].r

\* C9: single-flight.  However the trigger requests arrive, at most one run
\* executes at a time: the request that holds the lock is the only one
\* running, a request that arrives meanwhile waits, and the token reads and
\* writes of two runs never interleave.
C9_SingleFlight ==
    /\ Cardinality(Running) <= 1
    /\ \A r \in Running : lock = r /\ run.owner = r
    /\ TokenOpsNotInterleaved

\* a request waits while another one runs and has read the token
C9_Witness ==
    \E r, q \in DOMAIN req :
        /\ req[r].pc = "running" /\ req[q].pc = "waiting"
        /\ hist.tokenOps # <<>>
        /\ hist.tokenOps[Len(hist.tokenOps)].r = r

\* C10: the lock is released on every exit path.  A request whose main() has
\* returned 0, 1 or 2 or whose run has raised no longer holds the lock; when no
\* request is running the lock is free, so a waiting or later request can
\* acquire it.
C10_LockReleased ==
    /\ \A r \in DOMAIN req : req[r].pc \in {"done", "raised"} => lock # r
    /\ Running = {} => lock = NoRequest
    /\ \A r \in DOMAIN req :
          (req[r].pc = "waiting" /\ Running = {}) => ENABLED Acquire(r)

\* a request runs after the run of an earlier one has raised
C10_Witness ==
    \E r, q \in DOMAIN req : req[r].pc = "raised" /\ req[q].pc = "running"

-----------------------------------------------------------------------------
(* The token of a delta run *)

\* this step is a save_delta_token call, made outside a dry run, that returned
TokenSaved ==
    /\ run.pc = "delta_save"
    /\ ~run.cfg.dry_run
    /\ Len(hist'.tokenOps) = Len(hist.tokenOps) + 1
    /\ hist'.tokenOps[Len(hist'.tokenOps)].op = "write"

\* C11: the token is persisted only after all changes were applied.  The token
\* of a delta run is saved after the last change has been processed, and only
\* in a run in which no change failed to be applied.
C11_TokenAfterAllApplied ==
    [][TokenSaved => (run.i > Len(run.changes) /\ run.stats.files_failed = 0)]_vars

\* the run in progress has made a save_delta_token call
WroteToken ==
    \E k \in 1..Len(hist.tokenOps) :
        hist.tokenOps[k].r = run.owner /\ hist.tokenOps[k].op = "write"

\* the delta fetch of the run in progress has returned no new token
FetchedNoToken ==
    /\ run.stats.sync_mode # "full"
    /\ run.pc \in {"delta_loop", "delta_save", "perm_list", "perm_loop", "returned", "raised"}
    /\ run.changes # <<>> \/ run.exc = ""
    /\ ~TokenTruthy(run.delta_token)

\* C12: an empty or absent new token is not persisted.  When the delta fetch
\* returns no new token the run makes no write to the Token Store: the token
\* persisted before the run is still the persisted one, and the persisted
\* token is never the empty value.
C12_EmptyTokenNotPersisted ==
    /\ tokenStore # EmptyToken
    /\ FetchedNoToken => (tokenStore = hist.startToken /\ ~WroteToken)

\* an incremental run that is no dry run applied changes, got no new token and
\* completed with the earlier token still persisted
C12_Witness ==
    /\ Completed
    /\ run.stats.sync_mode = "delta-incremental"
    /\ ~run.cfg.dry_run
    /\ run.changes # <<>>
    /\ FetchedNoToken
    /\ tokenStore.kind = "link"

-----------------------------------------------------------------------------
(* Dry run *)

\* the run in progress is past the choice of its mode, or has completed
Begun ==
    \/ run.pc \in {"delta_fetch", "delta_loop", "delta_save", "perm_list", "perm_loop",
                   "full_blobs", "full_loop", "orphans"}
    \/ Completed

\* C13: dry run.  In a run with dry_run enabled, in either mode, no step
\* changes the container or the persisted token, while the persisted token is
\* still read: a delta run continues from it.  The two stores after the run
\* are what they were before it.
C13_DryRunWritesNothing ==
    /\ [][(run.pc # "none" /\ run.cfg.dry_run)
             => (blobs' = blobs /\ tokenStore' = tokenStore)]_vars
    /\ []((Begun /\ run.cfg.dry_run) =>
             /\ blobs = hist.startBlobs
             /\ tokenStore = hist.startToken
             /\ ~run.force_full => run.delta_link = LoadDeltaToken(hist.startToken))

\* a dry run continued from the persisted token, counted a delete, got a new
\* token and completed
C13_Witness ==
    /\ Completed
    /\ run.cfg.dry_run
    /\ run.stats.sync_mode = "delta-incremental"
    /\ run.stats.files_deleted > 0
    /\ TokenTruthy(run.delta_token)

-----------------------------------------------------------------------------
(* Specification: a run that finds a token it cannot use *)

\* what is persisted as the token is no delta link; the drive holds up to two
\* files and the container is empty or holds their artifacts
InitCorrupt ==
    /\ \E drive \in FirstDrives({"i1", "i3"}) :
        /\ remote = drive
        /\ blobs \in {EmptyStore, SyncedStore(drive, <<>>)}
    /\ tokenStore = CorruptToken
    /\ environ = Environment(TRUE, <<Slash>>, <<>>)
    /\ lock = NoRequest
    /\ req = [r \in {1} |-> NewRequest]
    /\ run = NoRun
    /\ hist = History(TRUE, MaxFaults, 0)
    /\ fn = NoCall

CorruptOverrides == [{"DRY_RUN"} -> {"true", "false"}]

NextCorrupt ==
    \/ \E r \in DOMAIN req : \E overrides \in CorruptOverrides : Trigger(r, overrides)
    \/ \E r \in DOMAIN req : Acquire(r)
    \/ \E r \in DOMAIN req : Release(r)
    \/ MainStart
    \/ ResolveIds
    \/ BeginSync
    \/ FetchDelta
    \/ DeltaChange
    \/ SaveToken
    \/ RunRaises

SpecCorrupt == InitCorrupt /\ [][NextCorrupt]_vars

-----------------------------------------------------------------------------
(* Specification: to_metadata applied to a list of permission entries *)

MaxEntries == 2

\* a 36-character id with a letter that is no hexadecimal digit
NotHex == Rep("g", 8) \o SubSeq(GuidA, 9, 36)

\* identity ids of the entries: None, "", GUIDs in lower and upper case, a
\* SharePoint-internal id, a GUID followed by a newline, a GUID-shaped non-GUID
IdentityIds ==
    {NoneId, StrId(<<>>), StrId(GuidA), StrId(GuidB), StrId(<<"5">>),
     StrId(GuidA \o <<Newline>>), StrId(NotHex)}

\* _parse_permission: the identity types an entry can have
IdentityTypes == {"user", "group", "siteGroup", "unknown"}

Entries == [identity_type : IdentityTypes, identity_id : IdentityIds]

EntryLists == UNION {[1..n -> Entries] : n \in 0..MaxEntries}

InitAcl ==
    /\ Idle
    /\ fn \in [op : {"to_metadata"}, permissions : EntryLists, called : {FALSE},
               result : {EmptyMd}]

\* main.py 124: file_permissions.to_metadata()
CallToMetadata ==
    /\ fn.op = "to_metadata"
    /\ ~fn.called
    /\ \E metadata \in ToMetadataResults(fn.permissions) :
          fn' = [fn EXCEPT !.called = TRUE, !.result = metadata]
    /\ UNCHANGED <<remote, blobs, tokenStore, environ, lock, req, run, hist>>

NextAcl == CallToMetadata

SpecAcl == InitAcl /\ [][NextAcl]_vars

\* to_metadata has returned
Encoded == fn.op = "to_metadata" /\ fn.called

\* a GUID: 8-4-4-4-12 hexadecimal digits and nothing else
WellFormedGuid(value) == Len(value) = 36 /\ GuidPattern(value)

\* the ids of the entries of `kind` among `permissions` that are GUIDs
ValidIds(permissions, kind) ==
    {permissions[k].identity_id.chars : k \in
        {j \in 1..Len(permissions) :
            /\ permissions[j].identity_type = kind
            /\ permissions[j].identity_id.kind = "str"
            /\ WellFormedGuid(permissions[j].identity_id.chars)}}

\* the '|'-joins of the ids of `S`, or the sentinel when there is none
Encodings(S, sentinel) ==
    IF S = {} THEN {sentinel} ELSE {Join(o, Pipe) : o \in Orderings(S)}

\* C15: ACL encoding.  For every list of permission entries, to_metadata yields
\* a user-ID field and a group-ID field that are both present and non-empty; the
\* user field is the '|'-join of the valid user GUIDs, or the 'no users'
\* sentinel when there is none, and independently the group field is the
\* '|'-join of the valid group GUIDs or the 'no groups' sentinel.
C15_AclEncoding ==
    Encoded =>
        /\ {METADATA_ACL_USER_IDS, METADATA_ACL_GROUP_IDS} \subseteq DOMAIN fn.result
        /\ fn.result[METADATA_ACL_USER_IDS].chars # <<>>
        /\ fn.result[METADATA_ACL_GROUP_IDS].chars # <<>>
        /\ fn.result[METADATA_ACL_USER_IDS].chars
               \in Encodings(ValidIds(fn.permissions, "user"), PLACEHOLDER_NO_USERS)
        /\ fn.result[METADATA_ACL_GROUP_IDS].chars
               \in Encodings(ValidIds(fn.permissions, "group"), PLACEHOLDER_NO_GROUPS)

\* C16: the sentinels.  The 'no users' sentinel and the 'no groups' sentinel
\* that to_metadata writes are two distinct fixed GUID values, and neither of
\* them is the zero-value GUID the query layer filters on for a caller without
\* groups.
C16_SentinelsNotZeroGuid ==
    Encoded =>
        LET users == fn.result[METADATA_ACL_USER_IDS].chars
            groups == fn.result[METADATA_ACL_GROUP_IDS].chars
            no_users == ExtractIds(fn.permissions, "user") = <<>>
            no_groups == ExtractIds(fn.permissions, "group") = <<>>
        IN  /\ no_users => (WellFormedGuid(users) /\ users # NO_ACCESS_GUID)
            /\ no_groups => (WellFormedGuid(groups) /\ groups # NO_ACCESS_GUID)
            /\ (no_users /\ no_groups) => users # groups

RECURSIVE Split(_, _)
\* value.split(sep)
Split(value, sep) ==
    IF \A k \in 1..Len(value) : value[k] # sep THEN <<value>>
    ELSE LET k == CHOOSE j \in 1..Len(value) :
                     value[j] = sep /\ \A h \in 1..(j - 1) : value[h] # sep
         IN  <<SubSeq(value, 1, k - 1)>> \o Split(SubSeq(value, k + 1, Len(value)), sep)

\* the identity ids a field encodes: none when it is the sentinel
FieldIds(field, sentinel) == IF field = sentinel THEN <<>> ELSE Split(field, Pipe)

\* the entries of `kind` among `permissions` whose id is `id`
EntriesWith(permissions, kind, id) ==
    {k \in 1..Len(permissions) :
        /\ permissions[k].identity_type = kind
        /\ permissions[k].identity_id = StrId(id)}

NoRepetition(s) == \A j, k \in 1..Len(s) : s[j] = s[k] => j = k

\* C17: GUID filtering and deduplication.  An identity id appears in the
\* encoded user field only if it comes from an entry of kind 'user' and is a
\* well-formed GUID, and in the group field only if it comes from an entry of
\* kind 'group' and is a well-formed GUID; no id appears twice in a field; an
\* entry whose id is not a well-formed GUID is absent from both fields and is
\* present in the raw JSON projection of all entries.
C17_GuidFilteringAndDedup ==
    Encoded =>
        LET users == FieldIds(fn.result[METADATA_ACL_USER_IDS].chars, PLACEHOLDER_NO_USERS)
            groups == FieldIds(fn.result[METADATA_ACL_GROUP_IDS].chars, PLACEHOLDER_NO_GROUPS)
        IN  /\ \A id \in Range(users) :
                  EntriesWith(fn.permissions, "user", id) # {} /\ WellFormedGuid(id)
            /\ \A id \in Range(groups) :
                  EntriesWith(fn.permissions, "group", id) # {} /\ WellFormedGuid(id)
            /\ NoRepetition(users) /\ NoRepetition(groups)
            /\ \A k \in 1..Len(fn.permissions) :
                  LET id == fn.permissions[k].identity_id IN
                  /\ (id.kind = "none" \/ ~WellFormedGuid(id.chars)) =>
                        \A enc \in Range(users) \cup Range(groups) : StrId(enc) # id
                  /\ fn.result[METADATA_PERMISSIONS].entries[k] = fn.permissions[k]

-----------------------------------------------------------------------------
(* Specification: update_blob_metadata applied to a stored artifact *)

\* what an earlier version of the sync may have left on an artifact besides the
\* upload metadata: nothing, a deprecated field, the ACL fields of an earlier
\* permission sync, or both
StoredExtras ==
    LET deprecated == ("metadata_user_ids" :> [kind |-> "chars", chars |-> GuidB])
        earlier == ToMetadata(<<>>, <<>>, <<>>) IN
    {EmptyMd, deprecated, earlier, deprecated @@ earlier}

\* the metadata a caller hands to update_blob_metadata: the encoding of a
\* permission list, or a mapping that supplies one of the deprecated names
AdditionalMetadata ==
    UNION {ToMetadataResults(permissions) : permissions \in PermissionLists}
    \cup {("metadata_user_ids" :> [kind |-> "chars", chars |-> GuidA])}

InitMerge ==
    /\ \E drive \in FirstDrives({"i1", "i3"}), extras \in StoredExtras :
        /\ drive # EmptyStore
        /\ remote = drive
        /\ blobs = [n \in DOMAIN SyncedStore(drive, <<>>) |->
                       [SyncedStore(drive, <<>>)[n] EXCEPT !.metadata = extras @@ @]]
    /\ tokenStore = NoToken
    /\ environ = Environment(TRUE, <<Slash>>, <<>>)
    /\ lock = NoRequest
    /\ req = [r \in {1} |-> NewRequest]
    /\ run = NoRun
    /\ hist = History(TRUE, 0, 0)
    /\ \E blob_name \in DOMAIN blobs :
         fn \in [op : {"update_blob_metadata"}, blob_name : {blob_name},
                 existing : {blobs[blob_name].metadata},
                 additional_metadata : AdditionalMetadata, dry_run : BOOLEAN,
                 called : {FALSE}, raised : {FALSE}]

\* main.py 131-135: blob_client.update_blob_metadata(blob_name, metadata, dry_run).
\* get_blob_properties may raise (caught by the method), set_blob_metadata may
\* raise (the method raises)
CallUpdateBlobMetadata ==
    /\ fn.op = "update_blob_metadata"
    /\ ~fn.called
    /\ \E o \in {"ok", "get_properties", "set_metadata"} :
         /\ o # "ok" => ~fn.dry_run
         /\ blobs' = IF o = "set_metadata" THEN blobs
                     ELSE UpdateBlobMetadata(blobs, fn.blob_name, fn.additional_metadata,
                                             fn.dry_run, o = "ok")
         /\ fn' = [fn EXCEPT !.called = TRUE, !.raised = (o = "set_metadata")]
    /\ UNCHANGED <<remote, tokenStore, environ, lock, req, run, hist>>

NextMerge == CallUpdateBlobMetadata

SpecMerge == InitMerge /\ [][NextMerge]_vars

\* update_blob_metadata has returned from a run that is no dry run
Merged ==
    fn.op = "update_blob_metadata" /\ fn.called /\ ~fn.raised /\ ~fn.dry_run

\* C18: metadata merge.  After update_blob_metadata(key, additional) in a
\* non-dry run, the metadata of the artifact contains every key of 'additional'
\* with its new value, contains none of the deprecated key names unless
\* 'additional' supplies it, and keeps every other previously stored key with
\* its previous value.
C18_MetadataMerge ==
    Merged =>
        LET md == blobs[fn.blob_name].metadata
            additional == fn.additional_metadata
        IN  /\ \A k \in DOMAIN additional : k \in DOMAIN md /\ md[k] = additional[k]
            /\ \A k \in DeprecatedFields \ DOMAIN additional : k \notin DOMAIN md
            /\ \A k \in DOMAIN fn.existing \ (DeprecatedFields \cup DOMAIN additional) :
                  k \in DOMAIN md /\ md[k] = fn.existing[k]

-----------------------------------------------------------------------------
(* Specification: runs that propagate permissions *)

\* the entries an earlier permission sync found on every file
EarlierPermissions == CHOOSE permissions \in PermissionLists : permissions # <<>>

\* the container `store` after an earlier run has written the encoding of
\* EarlierPermissions on every artifact
WithPermissions(store) ==
    LET earlier == CHOOSE md \in ToMetadataResults(EarlierPermissions) : TRUE IN
    [n \in DOMAIN store |-> [store[n] EXCEPT !.metadata = MergedMetadata(@, earlier)]]

\* the container holds the artifacts of the drive, with or without the ACL
\* fields of an earlier permission sync
InitPerm ==
    /\ \E drive \in FirstDrives({"i1", "i3"}) :
        /\ remote = drive
        /\ blobs \in {SyncedStore(drive, <<>>), WithPermissions(SyncedStore(drive, <<>>))}
        /\ tokenStore \in {NoToken, DeltaLink(drive)}
    /\ environ = Environment(TRUE, <<Slash>>, <<>>)
    /\ lock = NoRequest
    /\ req = [r \in {1} |-> NewRequest]
    /\ run = NoRun
    /\ hist = [History(TRUE, MaxFaults, 0) EXCEPT !.swallowedLeft = MaxSwallowed,
                                                  !.observeFetched = TRUE]
    /\ fn = NoCall

PermOverrides ==
    {overrides \in AllOverrides :
        overrides["SYNC_PERMISSIONS"] = "true" /\ overrides["DELETE_ORPHANED_BLOBS"] = "false"}

NextPerm ==
    \/ \E r \in DOMAIN req : \E overrides \in PermOverrides : Trigger(r, overrides)
    \/ \E r \in DOMAIN req : Acquire(r)
    \/ \E r \in DOMAIN req : Release(r)
    \/ MainStart
    \/ ResolveIds
    \/ BeginSync
    \/ FetchDelta
    \/ DeltaChange
    \/ SaveToken
    \/ ListForPermissions
    \/ PermissionStep
    \/ ListExisting
    \/ FullFile
    \/ ListingFails
    \/ RunRaises

SpecPerm == InitPerm /\ [][NextPerm]_vars

\* the step handles the permissions of a file outside a dry run and counts no
\* failure for it
PermissionHandled ==
    /\ ItemStep
    /\ run.pc = "perm_loop"
    /\ ~run.cfg.dry_run
    /\ run'.stats.permissions_failed = run.stats.permissions_failed

\* C19: after permission propagation has handled a visited file without
\* counting a failure for it, the artifact of the file carries both ACL fields
\* and they encode the permission entries fetched in this run: both sentinels
\* when the fetched list is empty, and nothing of the ACL fields an earlier run
\* wrote.
C19_AclFieldsOfThisRun ==
    [][PermissionHandled =>
        LET blob_name == GetBlobName(Prefix(run), run.files[run.i].path) IN
        /\ hist'.fetched.kind = "list"
        /\ blob_name \in DOMAIN blobs'
        /\ {METADATA_ACL_USER_IDS, METADATA_ACL_GROUP_IDS}
              \subseteq DOMAIN blobs'[blob_name].metadata
        /\ blobs'[blob_name].metadata[METADATA_ACL_USER_IDS].chars
              \in Encodings(ValidIds(hist'.fetched.permissions, "user"), PLACEHOLDER_NO_USERS)
        /\ blobs'[blob_name].metadata[METADATA_ACL_GROUP_IDS].chars
              \in Encodings(ValidIds(hist'.fetched.permissions, "group"), PLACEHOLDER_NO_GROUPS)
    ]_vars

-----------------------------------------------------------------------------
(* Specification: incremental runs over a drive that lost or gained files *)

\* an earlier run has synced drive state `prior` and persisted its delta link;
\* the drive has changed since, and the container holds the artifacts of
\* `prior` or has been emptied
InitIncremental ==
    /\ \E prior \in FirstDrives({"i1", "i3"}), now \in FirstDrives({"i1", "i3"}) :
        /\ remote = now
        /\ blobs \in {SyncedStore(prior, <<>>), EmptyStore}
        /\ tokenStore = DeltaLink(prior)
    /\ environ = Environment(TRUE, <<Slash>>, <<>>)
    /\ lock = NoRequest
    /\ req = [r \in {1} |-> NewRequest]
    /\ run = NoRun
    /\ hist = History(TRUE, MaxFaults, 0)
    /\ fn = NoCall

IncrementalOverrides ==
    {overrides \in AllOverrides :
        overrides["FORCE_FULL_SYNC"] = "false" /\ overrides["SYNC_PERMISSIONS"] = "false"}

NextIncremental ==
    \/ \E r \in DOMAIN req : \E overrides \in IncrementalOverrides : Trigger(r, overrides)
    \/ \E r \in DOMAIN req : Acquire(r)
    \/ \E r \in DOMAIN req : Release(r)
    \/ MainStart
    \/ ResolveIds
    \/ BeginSync
    \/ FetchDelta
    \/ DeltaChange
    \/ SaveToken
    \/ RunRaises

SpecIncremental == InitIncremental /\ [][NextIncremental]_vars

\* the step handles a Deleted change
DeletedStep ==
    /\ ItemStep
    /\ run.pc = "delta_loop"
    /\ run.changes[run.i].change_type = "DELETED"

\* the key derived from the path of the change of this step
DeletedKey == GetBlobName(Prefix(run), run.changes[run.i].item_path)

\* the delete call of this step raises: the service fails it, or it has no
\* such blob
DeleteRaises ==
    /\ run.cfg.delete_orphaned_blobs
    /\ \/ ItemFailed
       \/ ~run.cfg.dry_run /\ DeletedKey \notin DOMAIN blobs

\* C20: incremental delete gating.  For a Deleted change, the artifact whose
\* key is derived from the path of the change is deleted only if
\* delete_orphaned_blobs is enabled, and no other artifact is; when the flag is
\* disabled no artifact is deleted and no counter other than files_scanned
\* changes; when the delete raises, files_failed is incremented, files_deleted
\* is not, and the run continues with the next change.
C20_IncrementalDeleteGating ==
    [][DeletedStep =>
        /\ blobs' # blobs =>
              /\ run.cfg.delete_orphaned_blobs
              /\ blobs' = RemoveBlob(blobs, DeletedKey)
        /\ ~run.cfg.delete_orphaned_blobs =>
              /\ blobs' = blobs
              /\ run'.stats = [run.stats EXCEPT !.files_scanned = @ + 1]
        /\ DeleteRaises =>
              /\ run'.stats = [run.stats EXCEPT !.files_scanned = @ + 1,
                                                !.files_failed = @ + 1]
              /\ blobs' = blobs
              /\ run'.exc = "" /\ run'.pc # "raised"
              /\ run.i < Len(run.changes) => (run'.pc = "delta_loop" /\ run'.i = run.i + 1)
    ]_vars

\* an incremental run with deletion enabled went over two Deleted changes: one
\* delete failed, the artifact of the other is gone
C20_Witness ==
    /\ Completed
    /\ run.stats.sync_mode = "delta-incremental"
    /\ run.cfg.delete_orphaned_blobs /\ ~run.cfg.dry_run
    /\ Len(run.changes) >= 2
    /\ \A k \in 1..Len(run.changes) :
          run.changes[k].change_type = "DELETED" \/ ~run.changes[k].has_file
    /\ run.stats.files_failed = 1
    /\ run.stats.files_deleted = 1
    /\ Cardinality(DOMAIN blobs) = Cardinality(DOMAIN hist.startBlobs) - 1

-----------------------------------------------------------------------------
(* Specification: the end-to-end scenarios over a library of three files *)

\* the drive states with the three files
ThreeFiles == {d \in FirstDrives(Ids) : DOMAIN d = Ids}

\* drive state `drive` without item `id`
Without(drive, id) == [x \in DOMAIN drive \ {id} |-> drive[x]]

\* Scenario A: three remote files and an empty container, no token.
\* Scenario B: an earlier run has synced the three files and persisted its
\* delta link; one of them has been deleted on the drive since.
InitScenario ==
    /\ \E files \in ThreeFiles :
        \/ /\ remote = files
           /\ blobs = EmptyStore
           /\ tokenStore = NoToken
        \/ \E id \in Ids :
           /\ remote = Without(files, id)
           /\ blobs = SyncedStore(files, <<>>)
           /\ tokenStore = DeltaLink(files)
    /\ environ = Environment(TRUE, <<Slash>>, <<>>)
    /\ lock = NoRequest
    /\ req = [r \in {1} |-> NewRequest]
    /\ run = NoRun
    /\ hist = History(TRUE, MaxFaults, 0)
    /\ fn = NoCall

ScenarioOverrides ==
    {overrides \in AllOverrides : overrides["SYNC_PERMISSIONS"] = "false"}

NextScenario ==
    \/ \E r \in DOMAIN req : \E overrides \in ScenarioOverrides : Trigger(r, overrides)
    \/ \E r \in DOMAIN req : Acquire(r)
    \/ \E r \in DOMAIN req : Release(r)
    \/ MainStart
    \/ ResolveIds
    \/ BeginSync
    \/ FetchDelta
    \/ DeltaChange
    \/ SaveToken
    \/ ListExisting
    \/ FullFile
    \/ ListingFails
    \/ OrphanStep
    \/ RunRaises

SpecScenario == InitScenario /\ [][NextScenario]_vars

\* no collaborator call of the run has failed
NoFailure == hist.faultsLeft = MaxFaults

\* the run has completed an incremental pass, with orphan deletion on, over a
\* drive that lost file `id` of the three files the earlier run synced
ScenarioB(id) ==
    /\ Completed /\ NoFailure
    /\ run.stats.sync_mode = "delta-incremental"
    /\ run.cfg.delete_orphaned_blobs /\ ~run.cfg.dry_run
    /\ Snapshot(hist.startToken) \in ThreeFiles
    /\ hist.startBlobs = SyncedStore(Snapshot(hist.startToken), <<>>)
    /\ id \in Ids
    /\ hist.startRemote = Without(Snapshot(hist.startToken), id)
    /\ remote = hist.startRemote

\* the key of the artifact of item `id`
KeyOf(id) == GetBlobName(<<>>, ItemParent(id) \o <<Slash>> \o ItemName(id))

\* C21: scenario B.  After a run that synced 3 remote files, when one of them
\* is deleted remotely and an incremental run with orphan deletion on processes
\* the resulting Deleted change, the run reports files_deleted = 1 and the
\* container no longer lists the key of that file, while the other two
\* artifacts are unchanged.
C21_ScenarioB ==
    \A id \in Ids :
        ScenarioB(id) =>
            /\ run.stats.files_deleted = 1
            /\ KeyOf(id) \notin DOMAIN blobs
            /\ blobs = RemoveBlob(hist.startBlobs, KeyOf(id))

\* the run has completed over three remote files and a container that was
\* empty, with orphan deletion off
ScenarioA ==
    /\ Completed /\ NoFailure
    /\ ~run.cfg.delete_orphaned_blobs
    /\ hist.startBlobs = EmptyStore
    /\ hist.startRemote \in ThreeFiles
    /\ remote = hist.startRemote

-----------------------------------------------------------------------------
(* Folder entries of the delta feed *)

\* Delta runs, initial and incremental, over a drive whose feed carries
\* entries for folders; the feed each run was served is recorded.
InitFolders ==
    /\ \E prior \in FirstDrives({"i1", "i3"}), now \in FirstDrives({"i1", "i3"}) :
        /\ remote = now
        /\ blobs = SyncedStore(prior, <<>>)
        /\ tokenStore \in {NoToken, DeltaLink(prior)}
    /\ environ = Environment(TRUE, <<Slash>>, <<>>)
    /\ lock = NoRequest
    /\ req = [r \in {1} |-> NewRequest]
    /\ run = NoRun
    /\ hist = [History(TRUE, MaxFaults, 0) EXCEPT !.observeFeed = TRUE]
    /\ fn = NoCall

NextFolders ==
    \/ \E r \in DOMAIN req : \E overrides \in IncrementalOverrides : Trigger(r, overrides)
    \/ \E r \in DOMAIN req : Acquire(r)
    \/ \E r \in DOMAIN req : Release(r)
    \/ MainStart
    \/ ResolveIds
    \/ BeginSync
    \/ FetchDelta
    \/ DeltaChange
    \/ SaveToken
    \/ RunRaises

SpecFolders == InitFolders /\ [][NextFolders]_vars

\* the entries of the feed that are no folder entries
NonFolders(items) == SelectSeq(items, LAMBDA item : "folder" \notin item.facets)

\* the folder entries the feed served, by their facets
FoldersServed(facets) ==
    {k \in DOMAIN hist.feed : hist.feed[k].facets = facets}

-----------------------------------------------------------------------------
(* The files whose permissions a run propagates *)

\* the files of the list the permission loop goes over
PermissionFiles == {run.files[k] : k \in DOMAIN run.files}

\* C24: in full mode with permission sync enabled, the permission loop goes
\* over every remote file the run visited (added, updated, unchanged, and those
\* whose content processing failed), not only over those whose content changed.
C24_FullModePermissionsForAll ==
    (run.pc = "perm_loop" /\ run.stats.sync_mode = "full")
    => PermissionFiles = ListFiles(remote, run.cfg.sharepoint_folder_path)

\* the items the run has uploaded in its loop over the changes
UploadedIds == {run.changed_files[k].id : k \in DOMAIN run.changed_files}

\* C25: permissions are synced only for the files created or modified during
\* this sync cycle: in a delta run, the permission loop goes over a file only
\* if that file was uploaded in the same run.
C25_DeltaPermissionsForUploaded ==
    (run.pc = "perm_loop" /\ run.stats.sync_mode # "full")
    => \A f \in PermissionFiles : f.id \in UploadedIds

-----------------------------------------------------------------------------
(* get_delta over the pages the service serves *)

MaxPages == 3         \* pages of one delta response

\* an entry that carries none of the facets file, folder and deleted
RawOther ==
    [id |-> "other", name |-> <<"n">>, parent |-> <<"r", Colon>>, facets |-> {},
     size |-> 0, lastModified |-> [kind |-> "absent"], cTag |-> NoneStr]

\* the items of one page
PageItems ==
    {<<>>,
     <<RawFile("i1", [size |-> 1, v |-> 1])>>,
     <<RawFolder(<<"d">>), RawDeleted("i3", "full")>>,
     <<RawOther, RawFile("i2", [size |-> 0, v |-> 1])>>}

\* the delta link of one page: none, or one of two links
PageLinks ==
    {EmptyToken, DeltaLink([x \in {"i1"} |-> [size |-> 1, v |-> 1]]),
     DeltaLink([x \in {"i3"} |-> [size |-> 1, v |-> 1]])}

Pages == [items : PageItems, nextLink : {"", "next"}, deltaLink : PageLinks]

\* the responses of the service: every next link leads to a page, so the last
\* page carries none
Responses ==
    {pages \in UNION {[1..n -> Pages] : n \in 1..MaxPages} :
        pages[Len(pages)].nextLink = ""}

InitPaging ==
    /\ Idle
    /\ fn \in [op : {"get_delta"}, pages : Responses, called : {FALSE},
               result : {[changes |-> <<>>, delta_token |-> EmptyToken]}]

\* main.py 199: sp_client.get_delta(delta_link)
CallGetDelta ==
    /\ fn.op = "get_delta"
    /\ ~fn.called
    /\ fn' = [fn EXCEPT !.called = TRUE, !.result = GetDelta(fn.pages)]
    /\ UNCHANGED <<remote, blobs, tokenStore, environ, lock, req, run, hist>>

NextPaging == CallGetDelta

SpecPaging == InitPaging /\ [][NextPaging]_vars

\* the first page without a next link
FinalPage(pages) ==
    CHOOSE n \in DOMAIN pages :
        pages[n].nextLink = "" /\ \A m \in 1..n - 1 : pages[m].nextLink # ""

RECURSIVE ItemsUpTo(_, _)
\* the items of pages 1..n, in page order
ItemsUpTo(pages, n) ==
    IF n = 0 THEN <<>> ELSE ItemsUpTo(pages, n - 1) \o pages[n].items

\* the file-level changes of `items`, in their order
FileChanges(items) ==
    SelectSeq(ParsePage(items), LAMBDA c : ~c.is_folder)

-----------------------------------------------------------------------------
(* Specification: runs one after the other, forced to full mode or not *)

\* The drive holds /d/a.t or nothing; the container holds what an earlier run
\* left, whose token is persisted or not.  The token each run started from and
\* the token its fetch returned are recorded when the run ends.
InitResume ==
    /\ \E prior \in FirstDrives({"i1"}), now \in FirstDrives({"i1"}) :
        /\ remote = now
        /\ blobs = SyncedStore(prior, <<>>)
        /\ tokenStore \in {NoToken, DeltaLink(prior)}
    /\ environ = Environment(TRUE, <<Slash>>, <<>>)
    /\ lock = NoRequest
    /\ req = [r \in Requests |-> NewRequest]
    /\ run = NoRun
    /\ hist = [History(TRUE, MaxFaults, 0) EXCEPT !.observeTokens = TRUE]
    /\ fn = NoCall

ResumeOverrides ==
    {overrides \in AllOverrides :
        overrides["SYNC_PERMISSIONS"] = "false"
        /\ overrides["DELETE_ORPHANED_BLOBS"] = "false"}

NextResume ==
    \/ \E r \in DOMAIN req : \E overrides \in ResumeOverrides : Trigger(r, overrides)
    \/ \E r \in DOMAIN req : Acquire(r)
    \/ \E r \in DOMAIN req : Release(r)
    \/ MainStart
    \/ ResolveIds
    \/ BeginSync
    \/ FetchDelta
    \/ DeltaChange
    \/ SaveToken
    \/ ListExisting
    \/ FullFile
    \/ ListingFails
    \/ RunRaises

SpecResume == InitResume /\ [][NextResume]_vars

\* the run before the one in progress has completed
AfterCompletedRun ==
    /\ hist.last.kind = "run"
    /\ hist.last.pc = "returned" /\ hist.last.exc = ""

\* the run in progress was not forced to full mode and is past the load of
\* the token
Resuming == Begun /\ ~run.force_full

\* C27: a forced full resync invalidates the persisted continuation token.
\* After a completed run with FORCE_FULL_SYNC=true, the token that was
\* persisted before it is not the token the following non-forced run resumes
\* from.
C27_ForcedFullInvalidatesToken ==
    (/\ Resuming
     /\ AfterCompletedRun
     /\ hist.last.sync_mode = "full"
     /\ hist.lastStartToken.kind = "link")
    => run.delta_link # hist.lastStartToken

\* the run before the one in progress was a delta run outside a dry run that
\* completed with a new token from its fetch
AfterDeltaRunWithToken ==
    /\ AfterCompletedRun
    /\ hist.last.sync_mode # "full"
    /\ ~hist.last.cfg.dry_run
    /\ TokenTruthy(hist.lastNewToken)

\* the fetch of the run in progress has returned
FeedFetched == run.pc \in {"delta_loop", "delta_save"} \/ (Completed /\ ~run.force_full)

\* the items the feed reports from `link` on: those that differ from the drive
\* state of the link, and those deleted since
ReportedFrom(link) ==
    {id \in DOMAIN remote : id \notin DOMAIN Snapshot(link) \/ Snapshot(link)[id] # remote[id]}
    \cup Gone(link, remote)

C28_WitnessInitial ==
    /\ Completed /\ ~run.force_full
    /\ hist.startToken = NoToken
    /\ run.stats.sync_mode = "delta-initial"
    /\ run.stats.files_added = 1

-----------------------------------------------------------------------------
(* The choice of the mode *)

\* the request of the run in progress carries the force-full override
ForceFullOverride == req[run.owner].overrides["FORCE_FULL_SYNC"] = "true"

\* the calls on the Token Store the run in progress has made
OwnTokenOps ==
    {k \in 1..Len(hist.tokenOps) : hist.tokenOps[k].r = run.owner}

\* where a run is while it executes the full strategy / the delta strategy
FullPhases == {"full_blobs", "full_loop", "orphans"}
DeltaPhases == {"delta_fetch", "delta_loop", "delta_save", "perm_list"}

-----------------------------------------------------------------------------
(* Staleness when the fingerprints decide nothing *)

\* the two fingerprints of the call cannot be compared, or are equal
NoFingerprintDifference ==
    LET stored_hash == MdGet(fn.metadata, METADATA_SP_CONTENT_HASH) IN
    \/ ~Truthy(stored_hash)
    \/ ~Truthy(fn.sp_content_hash)
    \/ stored_hash = fn.sp_content_hash

\* main.py 286-325 for the file and the artifact of the call: one pass of the
\* full-mode loop over the file, the artifact being the one listed for it
PassOverCall ==
    LET sp_file == SharePointFile("i3", <<Slash, "b", Dot, "t">>, 1,
                                  fn.sp_last_modified, fn.sp_content_hash)
        store == GetBlobName(<<>>, sp_file.path) :> [size |-> 1, metadata |-> fn.metadata]
        rr == [NoRun EXCEPT !.pc = "full_loop", !.files = <<sp_file>>,
                            !.existing = store] IN
    [store |-> store, done |-> ProcessFile(rr, store, "ok")]

\* C30: conservative staleness default.  When the fingerprints cannot be
\* compared (the stored or the remote one is missing) or are equal, and the
\* remote last-modified is the instant of the stored one, both taken as UTC
\* when they carry no zone, should_update returns false and the loop counts
\* the file unchanged and leaves its artifact as it is.
C30_TieIsUnchanged ==
    (fn.op = "should_update" /\ fn.result # "pending"
     /\ NoFingerprintDifference /\ SameInstant) =>
        /\ fn.result = "false"
        /\ PassOverCall.done.run.stats.files_unchanged = 1
        /\ PassOverCall.done.run.stats.files_updated = 0
        /\ PassOverCall.done.blobs = PassOverCall.store

\* the call had no stored fingerprint to compare and a stored timestamp
\* without zone that denotes the instant of the remote one, written with
\* another wall clock
C30_Witness ==
    /\ fn.op = "should_update" /\ fn.result = "false"
    /\ SameInstant
    /\ ~MdHas(fn.metadata, METADATA_SP_CONTENT_HASH)
    /\ Truthy(fn.sp_content_hash)
    /\ fn.metadata[METADATA_SP_LAST_MODIFIED].sfx = ""
    /\ fn.metadata[METADATA_SP_LAST_MODIFIED].wall # fn.sp_last_modified.wall

-----------------------------------------------------------------------------
(* Specification: Deleted changes on an account with or without a           *)
(* hierarchical namespace, with or without a blob prefix                    *)

\* An earlier run has synced the drive under the prefix and persisted its
\* token; files have been deleted since.
InitDeleted ==
    /\ \E prior \in FirstDrives({"i1", "i3"}), now \in FirstDrives({"i1", "i3"}),
          prefix \in {<<>>, <<"p">>} :
        /\ remote = now
        /\ blobs = SyncedStore(prior, prefix)
        /\ tokenStore = DeltaLink(prior)
        /\ environ = Environment(TRUE, <<Slash>>, prefix)
    /\ lock = NoRequest
    /\ req = [r \in {1} |-> NewRequest]
    /\ run = NoRun
    /\ \E hns \in BOOLEAN : hist = [History(TRUE, MaxFaults, 0) EXCEPT !.hns = hns]
    /\ fn = NoCall

NextDeleted ==
    \/ \E r \in DOMAIN req : \E overrides \in IncrementalOverrides : Trigger(r, overrides)
    \/ \E r \in DOMAIN req : Acquire(r)
    \/ \E r \in DOMAIN req : Release(r)
    \/ MainStart
    \/ ResolveIds
    \/ BeginSync
    \/ FetchDelta
    \/ DeltaChange
    \/ SaveToken
    \/ RunRaises

SpecDeleted == InitDeleted /\ [][NextDeleted]_vars

\* C31: processing one Deleted change removes at most one artifact.  The only
\* artifact that can disappear in the pass over a Deleted change is the one
\* whose key is the key derived from the path of the change, whatever that
\* path is; every other artifact is left as it was.
C31_DeletedRemovesAtMostOne ==
    [][DeletedStep =>
        /\ DOMAIN blobs' \subseteq DOMAIN blobs
        /\ \A n \in DOMAIN blobs \ {DeletedKey} :
              n \in DOMAIN blobs' /\ blobs'[n] = blobs[n]
    ]_vars

-----------------------------------------------------------------------------
(* Specification: a run configured for the folder /d of the drive *)

\* SHAREPOINT_FOLDER_PATH is /d; the drive holds /d/a.t, /b.t, both or none; the
\* container is empty or holds an artifact b.t, and no token is persisted
InitFolderScope ==
    /\ remote \in FirstDrives({"i1", "i3"})
    /\ \E earlier \in FirstDrives({"i3"}) : blobs = SyncedStore(earlier, <<>>)
    /\ tokenStore = NoToken
    /\ environ = Environment(TRUE, <<Slash, "d">>, <<>>)
    /\ lock = NoRequest
    /\ req = [r \in {1} |-> NewRequest]
    /\ run = NoRun
    /\ hist = History(TRUE, MaxFaults, 0)
    /\ fn = NoCall

NextFolderScope ==
    \/ \E r \in DOMAIN req : \E overrides \in ScenarioOverrides : Trigger(r, overrides)
    \/ \E r \in DOMAIN req : Acquire(r)
    \/ \E r \in DOMAIN req : Release(r)
    \/ MainStart
    \/ ResolveIds
    \/ BeginSync
    \/ FetchDelta
    \/ DeltaChange
    \/ SaveToken
    \/ ListExisting
    \/ FullFile
    \/ ListingFails
    \/ OrphanStep
    \/ RunRaises

SpecFolderScope == InitFolderScope /\ [][NextFolderScope]_vars

\* the artifacts the step has created or overwritten
Written == {n \in DOMAIN blobs' : n \notin DOMAIN blobs \/ blobs'[n] # blobs[n]}

\* C32: every artifact a run creates or overwrites, in either mode, is the
\* artifact of a remote file located under the configured folder
\* (sharepoint_folder_path); no artifact is written for a file outside it.
C32_WritesWithinFolder ==
    [][\A n \in Written :
          InFolder(blobs'[n].metadata[METADATA_SP_ITEM_ID], run.cfg.sharepoint_folder_path)
    ]_vars

-----------------------------------------------------------------------------
(* Specification: content runs over artifacts that carry ACL fields *)

\* drive state `drive` after the content of file `id` has changed
Modify(drive, id) == [drive EXCEPT ![id] = [size |-> 1, v |-> 2]]

\* An earlier run has synced the drive and written the permission encoding on
\* every artifact; one file may have changed since.  Permission sync is off.
InitUpsert ==
    /\ \E prior \in FirstDrives({"i1", "i3"}) :
        /\ remote \in {prior} \cup {Modify(prior, id) : id \in DOMAIN prior}
        /\ blobs = WithPermissions(SyncedStore(prior, <<>>))
        /\ tokenStore \in {NoToken, DeltaLink(prior)}
    /\ environ = Environment(TRUE, <<Slash>>, <<>>)
    /\ lock = NoRequest
    /\ req = [r \in {1} |-> NewRequest]
    /\ run = NoRun
    /\ hist = History(TRUE, MaxFaults, 0)
    /\ fn = NoCall

NextUpsert ==
    \/ \E r \in DOMAIN req : \E overrides \in ResumeOverrides : Trigger(r, overrides)
    \/ \E r \in DOMAIN req : Acquire(r)
    \/ \E r \in DOMAIN req : Release(r)
    \/ MainStart
    \/ ResolveIds
    \/ BeginSync
    \/ FetchDelta
    \/ DeltaChange
    \/ SaveToken
    \/ ListExisting
    \/ FullFile
    \/ ListingFails
    \/ RunRaises

SpecUpsert == InitUpsert /\ [][NextUpsert]_vars

AclFields == {METADATA_ACL_USER_IDS, METADATA_ACL_GROUP_IDS}

\* C33: a content upsert of an existing artifact leaves the permission
\* encoding attached to it unchanged.  In a run with permission sync disabled,
\* an artifact that exists before and after a step carries after it the ACL
\* user-id and group-id fields it carried before.
C33_UpsertKeepsAcl ==
    [][~run.sync_permissions =>
        \A n \in DOMAIN blobs \cap DOMAIN blobs' :
            \A k \in AclFields \cap DOMAIN blobs[n].metadata :
                /\ k \in DOMAIN blobs'[n].metadata
                /\ blobs'[n].metadata[k] = blobs[n].metadata[k]
    ]_vars

-----------------------------------------------------------------------------
(* A delta fetch that fails *)

\* the GET of a page of the feed has failed in the run in progress
FetchFailed == run.pc # "none" /\ hist.fault = "get_delta"

\* C34: in a delta run no artifact is mutated before the whole feed has been
\* fetched.  While the feed is being fetched no step changes the container or
\* the persisted token, and when the GET of any page fails the run ends with
\* an exception, the container and the persisted token being exactly what they
\* were at the start of the run.
C34_NoMutationBeforeFetch ==
    [][/\ run.pc = "delta_fetch" => (blobs' = blobs /\ tokenStore' = tokenStore)
       /\ FetchFailed' =>
             /\ run'.pc = "returned" /\ run'.exc # ""
             /\ run'.stats.files_scanned = 0
             /\ blobs' = hist'.startBlobs
             /\ tokenStore' = hist'.startToken
    ]_vars

\* the fetch of an incremental run over a drive with changes has failed; the
\* run has ended with exit code 1 and artifacts and token are those of its start
C34_Witness ==
    /\ FetchFailed
    /\ run.pc = "returned" /\ run.result = 1
    /\ ~run.cfg.dry_run
    /\ run.stats.sync_mode = "delta-incremental"
    /\ Cardinality(ReportedFrom(run.delta_link)) = 2
    /\ blobs = hist.startBlobs /\ blobs # EmptyStore
    /\ tokenStore = hist.startToken

-----------------------------------------------------------------------------
(* Specification: full-mode runs with orphan cleanup, on an account with or  *)
(* without a hierarchical namespace                                         *)

RECURSIVE Directories(_)
\* the directories on the path of blob `name`
Directories(name) ==
    IF ~Contains(name, Slash) THEN {}
    ELSE LET parent == RStrip(SubSeq(name, 1, Len(name) - Len(LastSegment(name))), Slash) IN
         {parent} \cup Directories(parent)

\* what the container holds on an account with a hierarchical namespace: next
\* to the blobs, a directory for every folder on their paths, which a listing
\* returns as a blob of size 0
WithDirectories(store) ==
    LET dirs == UNION {Directories(n) : n \in DOMAIN store} IN
    [n \in DOMAIN store \cup dirs |->
        IF n \in DOMAIN store THEN store[n] ELSE [size |-> 0, metadata |-> EmptyMd]]

\* the states the drive can be in after `prior`: each file is as it was, has
\* been modified, or is gone
Later(prior) ==
    {d \in UNION {[S -> RemoteFiles] : S \in SUBSET DOMAIN prior} :
        \A id \in DOMAIN d : d[id] = prior[id] \/ d[id] = [size |-> 1, v |-> 2]}

\* FORCE_FULL_SYNC=true is set; an earlier run has synced /d/a.t, /b.t and
\* /v.1/c.t, or some of them
InitOrphans ==
    /\ \E prior \in FirstDrives({"i1", "i3", "i4"}), hns \in BOOLEAN :
        /\ remote \in Later(prior)
        /\ blobs = IF hns THEN WithDirectories(SyncedStore(prior, <<>>))
                   ELSE SyncedStore(prior, <<>>)
        /\ hist = [History(TRUE, MaxFaults, 0) EXCEPT !.hns = hns]
    /\ tokenStore = NoToken
    /\ environ = [k \in DOMAIN Environment(TRUE, <<Slash>>, <<>>) \cup {"FORCE_FULL_SYNC"} |->
                     IF k = "FORCE_FULL_SYNC" THEN "true"
                     ELSE Environment(TRUE, <<Slash>>, <<>>)[k]]
    /\ lock = NoRequest
    /\ req = [r \in {1} |-> NewRequest]
    /\ run = NoRun
    /\ fn = NoCall

NextOrphans ==
    \/ \E r \in DOMAIN req : \E overrides \in FullRunOverrides : Trigger(r, overrides)
    \/ \E r \in DOMAIN req : Acquire(r)
    \/ \E r \in DOMAIN req : Release(r)
    \/ MainStart
    \/ ResolveIds
    \/ BeginSync
    \/ ListExisting
    \/ FullFile
    \/ ListingFails
    \/ OrphanStep
    \/ RunRaises

SpecOrphans == InitOrphans /\ [][NextOrphans]_vars

\* the keys of the remote files the listing of the run enumerates
RemoteKeys ==
    {GetBlobName(Prefix(run), f.path) :
        f \in ListFiles(remote, run.cfg.sharepoint_folder_path)}

\* C35: in full mode the key of every enumerated remote file is recorded as
\* seen before the file is processed, so the orphan cleanup of the run never
\* deletes an artifact whose remote file still exists, also when the download
\* or the upload of that file has failed.
C35_SeenBeforeProcessed ==
    [][/\ run.pc = "full_loop" /\ run'.pc \in {"full_loop", "orphans"} /\ run'.i # run.i
          => GetBlobName(Prefix(run), run.files[run.i].path) \in run'.seen
       /\ run.pc = "orphans"
          => \A n \in DOMAIN blobs \ DOMAIN blobs' : n \notin RemoteKeys
    ]_vars

-----------------------------------------------------------------------------
(* The listing of the container against what upload_blob has written *)

\* the artifacts in the container that upload_blob has written under the
\* prefix of the run
UploadedArtifacts ==
    {n \in DOMAIN blobs :
        /\ StartsWith(n, Prefix(run))
        /\ METADATA_SP_ITEM_ID \in DOMAIN blobs[n].metadata}

\* C36: list/put consistency of the content store.  Every artifact that
\* upload_blob has written under the configured prefix and that has not been
\* deleted since is returned by list_blobs, whatever the size and the name of
\* the file, so a full-mode run finds it in its lookup of existing artifacts.
C36_ListPutConsistency ==
    [][(run.pc = "full_blobs" /\ run'.pc # "full_blobs" /\ run'.exc = "")
          => \A n \in UploadedArtifacts : n \in DOMAIN run'.existing]_vars

-----------------------------------------------------------------------------
(* The counters of a full-mode run *)

\* the remote files counted in one of the four outcome counters, plus the
\* orphans counted as failed
Counted ==
    run.stats.files_added + run.stats.files_updated + run.stats.files_unchanged
        + run.stats.files_failed

\* the run is in full mode and has reached the end of the remote-file stream
StreamDone ==
    /\ run.stats.sync_mode = "full"
    /\ \/ run.pc \in {"orphans", "perm_loop"}
       \/ Completed

\* C37: counter conservation in full mode.  While the stream of remote files
\* is read, and at its end before orphan cleanup, every scanned file is counted
\* in exactly one of files_added, files_updated, files_unchanged and
\* files_failed, so files_scanned is their sum and files_deleted is 0; each
\* pass of the orphan cleanup then adds one to files_deleted or to
\* files_failed, so files_deleted counts orphan deletions only.
C37_CounterConservation ==
    /\ run.pc = "full_loop" =>
        /\ run.stats.files_scanned = run.i - 1
        /\ run.stats.files_scanned = Counted
        /\ run.stats.files_deleted = 0
    /\ run.pc = "orphans" =>
        /\ run.stats.files_scanned + (run.i - 1) = Counted + run.stats.files_deleted
        /\ run.stats.files_deleted <= run.i - 1
    /\ StreamDone =>
        /\ run.stats.files_scanned = Cardinality(ListFiles(remote, run.cfg.sharepoint_folder_path))
        /\ run.stats.files_scanned <= Counted
        /\ run.stats.files_deleted + (Counted - run.stats.files_scanned)
              <= Len(Orphans(run))
        /\ ~run.cfg.delete_orphaned_blobs =>
              run.stats.files_deleted = 0 /\ run.stats.files_scanned = Counted
        /\ (Completed /\ run.cfg.delete_orphaned_blobs) =>
              run.stats.files_deleted + (Counted - run.stats.files_scanned)
                  = Len(Orphans(run))

\* a full run has completed: of three remote files one was added or updated
\* and one failed, and one orphan was deleted
C37_WitnessCompleted ==
    /\ Completed /\ run.stats.sync_mode = "full"
    /\ run.stats.files_scanned = 2
    /\ run.stats.files_failed = 1
    /\ run.stats.files_added + run.stats.files_updated = 1
    /\ run.stats.files_deleted = 1

\* the end of the stream, before the first orphan is cleaned, with a file
\* that failed
C37_Witness ==
    /\ run.pc = "orphans" /\ run.i = 1
    /\ run.stats.files_failed = 1
    /\ run.stats.files_scanned = 2

-----------------------------------------------------------------------------
(* Specification: trigger requests with different overrides, arriving while *)
(* a run is in progress                                                     *)

\* the environment of the process: DRY_RUN=true is set, FORCE_FULL_SYNC is not
BaseEnvironment ==
    [k \in DOMAIN Environment(TRUE, <<Slash>>, <<>>) \cup {"DRY_RUN"} |->
        IF k = "DRY_RUN" THEN "true" ELSE Environment(TRUE, <<Slash>>, <<>>)[k]]

\* what _build_overrides makes of the requests: any of force_full_sync and
\* dry_run given, as true or as false
RequestOverrides ==
    UNION {[S -> {"true", "false"}] : S \in SUBSET {"FORCE_FULL_SYNC", "DRY_RUN"}}

\* one file on the drive, an empty container, no token
InitOverrides ==
    /\ remote = [id \in {"i3"} |-> [size |-> 1, v |-> 1]]
    /\ blobs = EmptyStore
    /\ tokenStore = NoToken
    /\ environ = BaseEnvironment
    /\ lock = NoRequest
    /\ req = [r \in Requests |-> NewRequest]
    /\ run = NoRun
    /\ hist = History(FALSE, MaxFaults, 0)
    /\ fn = NoCall

NextOverrides ==
    \/ \E r \in DOMAIN req : \E overrides \in RequestOverrides : Trigger(r, overrides)
    \/ \E r \in DOMAIN req : Acquire(r)
    \/ \E r \in DOMAIN req : Release(r)
    \/ MainStart
    \/ ResolveIds
    \/ BeginSync
    \/ FetchDelta
    \/ DeltaChange
    \/ SaveToken
    \/ ListExisting
    \/ FullFile
    \/ ListingFails
    \/ RunRaises

SpecOverrides == InitOverrides /\ [][NextOverrides]_vars

\* the environment of the process with the overrides of request r on top
Overridden(r) ==
    [k \in DOMAIN BaseEnvironment \cup DOMAIN req[r].overrides |->
        IF k \in DOMAIN req[r].overrides THEN req[r].overrides[k] ELSE BaseEnvironment[k]]

\* C38: override isolation at the trigger.  While the run of a request is in
\* progress the environment holds the overrides of that request and of no
\* other, and the run has read its configuration and flags from it; once
\* _run_sync has returned or raised every overridden variable has the value it
\* had before the run, or is absent if it was absent, so a later or queued
\* request starts from the environment of the process.
C38_OverrideIsolation ==
    /\ LockFree => environ = BaseEnvironment
    /\ \A r \in DOMAIN req : lock = r =>
        /\ environ = Overridden(r)
        /\ run.pc # "main" =>
            /\ run.cfg = ConfigFromEnvironment(Overridden(r))
            /\ run.force_full = ForceFullSync(Overridden(r))
            /\ run.sync_permissions = IsPermissionsSyncEnabled(Overridden(r))
    /\ \A r \in DOMAIN req : req[r].pc \in {"new", "waiting"} =>
        req[r].previous_values = NoOverrides

\* a request without overrides runs as the environment of the process says,
\* a dry run in delta mode, after the run of a request that asked for a forced
\* full sync that is no dry run
C38_Witness ==
    /\ hist.last.kind = "run"
    /\ hist.last.pc = "returned" /\ hist.last.exc = ""
    /\ ~hist.last.cfg.dry_run
    /\ hist.last.sync_mode = "full"
    /\ Completed
    /\ req[run.owner].overrides = NoOverrides
    /\ run.cfg.dry_run
    /\ run.stats.sync_mode # "full"

\* the run of a request has raised and the environment is the one of the
\* process again, while a request with other overrides waits
C38_WitnessRaised ==
    \E r, q \in DOMAIN req :
        /\ req[r].pc = "raised" /\ req[q].pc = "waiting"
        /\ req[q].overrides # NoOverrides
        /\ LockFree

-----------------------------------------------------------------------------
(* Specification: the runs of finitely many trigger requests, every call of *)
(* a collaborator returning or raising                                      *)

\* what the requests ask for: the first a run with permission sync, the
\* second a forced full sync with orphan cleanup, a further one nothing
LiveOverrides(r) ==
    CASE r = 1 -> ("SYNC_PERMISSIONS" :> "true")
      [] r = 2 -> ("FORCE_FULL_SYNC" :> "true") @@ ("DELETE_ORPHANED_BLOBS" :> "true")
      [] OTHER -> NoOverrides

\* an earlier run has synced /d/a.t and /b.t and has persisted its token or
\* not; /d/a.t has since been modified and /b.t is gone
InitLive ==
    /\ \E prior \in FirstDrives({"i1", "i3"}) :
        /\ DOMAIN prior = {"i1", "i3"}
        /\ remote = [id \in {"i1"} |-> [size |-> 1, v |-> 2]]
        /\ blobs = SyncedStore(prior, <<>>)
        /\ tokenStore \in {NoToken, DeltaLink(prior)}
    /\ environ = Environment(TRUE, <<Slash>>, <<>>)
    /\ lock = NoRequest
    /\ req = [r \in Requests |-> NewRequest]
    /\ run = NoRun
    /\ hist = History(FALSE, MaxFaults, 0)
    /\ fn = NoCall

NextLive ==
    \/ \E r \in DOMAIN req : Trigger(r, LiveOverrides(r))
    \/ \E r \in DOMAIN req : Acquire(r)
    \/ \E r \in DOMAIN req : Release(r)
    \/ RunStep

\* a call of a collaborator returns or raises, so the run in progress takes
\* its next step; a thread that waits for the lock takes it once it stays
\* free; a thread whose main() has ended leaves _run_sync
Fairness ==
    /\ WF_vars(RunStep)
    /\ \A r \in Requests : WF_vars(Acquire(r))
    /\ \A r \in Requests : WF_vars(Release(r))

SpecLive == InitLive /\ [][NextLive]_vars /\ Fairness

\* a request waits for the lock
Queued == \E r \in DOMAIN req : req[r].pc = "waiting"

\* no request waits or runs: each one that has arrived has been served, its
\* run returned or raised
AllServed == \A r \in DOMAIN req : req[r].pc \in {"new", "done", "raised"}

=============================================================================
